---- MODULE Spec2Model ----
(***************************************************************************)
(* Humidity Intelligence automation engine (automations/engine.py).        *)
(*                                                                         *)
(* The engine's evaluation cycle, its CO-emergency latch, the alert lane,  *)
(* the zone / air-quality / humidifier lanes and the per-level AQ run      *)
(* timers are modelled as a state machine.  Time is counted in ticks of    *)
(* 30 seconds.  Sensor readings are small integers; an absent reading      *)
(* (unknown / unavailable / non numeric) is NA.                            *)
(***************************************************************************)
EXTENDS Integers, Sequences, FiniteSets, TLC

\* ------------------------------------------------------------------ bounds
MaxTime == 4
MaxTasks == 3
MaxEvals == 2

\* ------------------------------------------------------- program constants
CO_EMERGENCY_START == 15
CO_THRESHOLD_MIN == 10
CO_THRESHOLD_MAX == 100
CO_CLEAR_DELTA == 5
CO_CLEAR_HOLD == 4
ALERT_FLASH_GAP == 1
TICKS_PER_MINUTE == 2
ZONE_OUTPUT_LEVEL_DEFAULT == 66
ZONE_OUTPUT_LEVEL_BOOST_DEFAULT == 100
HUMIDIFIER_RECOVERY_IN_BAND_DEFAULT == 3
AQ_RUN_DURATION_DEFAULT == 30
AQ_RUN_DURATION_MAX == 1440
PAUSE_TICKS == 2
STARTUP_RECHECK_TICKS == 2

NA == -1
NoTime == -1
NoTask == 0

Levels == {"level1", "level2"}
ZoneKeys == {"zone1", "zone2"}

FanEntities == {"fan.zone1", "fan.zone2", "fan.aq1"}
SwitchEntities == {"switch.vent"}
HumidifierEntities == {"humidifier.l1", "humidifier.l2"}
OtherEntities == {"light.alert"}
Entities == FanEntities \cup SwitchEntities \cup HumidifierEntities \cup OtherEntities

BoolKeys ==
  { "air_control_enabled", "air_control_manual_override",
    "air_isolate_fan_outputs", "air_isolate_humidifier_outputs",
    "air_co_emergency_active",
    "air_downstairs_humidifier_active", "air_upstairs_humidifier_active",
    "air_aq_downstairs_active", "air_aq_upstairs_active",
    "air_alert_1_active", "air_alert_2_active" }

RunTimerKeys == {"air_aq_upstairs_run", "air_aq_downstairs_run"}

\* --------------------------------------------------------- small helpers
Min(a, b) == IF a <= b THEN a ELSE b
Max(a, b) == IF a >= b THEN a ELSE b
Abs(a) == IF a < 0 THEN 0 - a ELSE a

RECURSIVE SumOver(_, _)
SumOver(f, S) ==
  IF S = {} THEN 0
  ELSE LET x == CHOOSE y \in S : TRUE IN f[x] + SumOver(f, S \ {x})

\* round(total / n, 1), as tenths, rounding half to even
RoundTenths(total, n) ==
  LET num == 10 * total
      q == num \div n
      r == num % n
  IN  IF 2 * r < n THEN q
      ELSE IF 2 * r > n THEN q + 1
      ELSE IF q % 2 = 0 THEN q ELSE q + 1

\* _bounded_int
BoundedInt(value, lo, hi, fallback) ==
  IF value = NA THEN fallback ELSE Max(lo, Min(hi, value))

\* ---------------------------------------------------------- fan levels
\* A configured level is None, a number, or a text (a sequence of characters).
None == [ k |-> "none", n |-> 0, t |-> << >> ]
Num(n) == [ k |-> "int", n |-> n, t |-> << >> ]
Txt(t) == [ k |-> "str", n |-> 0, t |-> t ]

\* a level as the configurations above give it: a number, or NA for a missing one
RawLevel(v) == IF v = NA THEN None ELSE Num(v)

Digits == {"0", "1", "2", "3", "4", "5", "6", "7", "8", "9"}

DigitValue(c) ==
  CASE c = "0" -> 0 [] c = "1" -> 1 [] c = "2" -> 2 [] c = "3" -> 3 [] c = "4" -> 4
    [] c = "5" -> 5 [] c = "6" -> 6 [] c = "7" -> 7 [] c = "8" -> 8 [] c = "9" -> 9

RECURSIVE DigitsValue(_)
DigitsValue(t) ==
  IF t = << >> THEN 0
  ELSE 10 * DigitsValue(SubSeq(t, 1, Len(t) - 1)) + DigitValue(t[Len(t)])

\* str.strip().lower() over the letters the texts use
RECURSIVE StripText(_)
StripText(t) ==
  IF t # << >> /\ t[1] = " " THEN StripText(Tail(t))
  ELSE IF t # << >> /\ t[Len(t)] = " " THEN StripText(SubSeq(t, 1, Len(t) - 1))
  ELSE t

LowerText(t) ==
  [ i \in 1..Len(t) |->
      CASE t[i] = "A" -> "a" [] t[i] = "U" -> "u" [] t[i] = "T" -> "t" [] t[i] = "O" -> "o"
        [] OTHER -> t[i] ]

\* float() of an unsigned text split at its decimal point: ok is FALSE where
\* float() raises ValueError, n is the whole part times the sign
FloatParts(whole, frac, sign) ==
  IF /\ \A i \in 1..Len(whole) : whole[i] \in Digits
     /\ \A i \in 1..Len(frac) : frac[i] \in Digits
     /\ Len(whole) + Len(frac) > 0
  THEN [ ok |-> TRUE, n |-> sign * DigitsValue(whole) ]
  ELSE [ ok |-> FALSE, n |-> 0 ]

\* the position of the first decimal point, or one past the end
FirstDot(u) ==
  CHOOSE d \in 1..Len(u) + 1 :
    /\ d <= Len(u) => u[d] = "."
    /\ \A j \in 1..d - 1 : u[j] # "."

SplitAt(u, d, sign) == FloatParts(SubSeq(u, 1, d - 1), SubSeq(u, d + 1, Len(u)), sign)

\* int(float(text)) for a text of sign, digits and one decimal point
ParseIntOfFloat(text) ==
  SplitAt(IF text # << >> /\ text[1] \in {"-", "+"} THEN Tail(text) ELSE text,
          FirstDot(IF text # << >> /\ text[1] \in {"-", "+"} THEN Tail(text) ELSE text),
          IF text # << >> /\ text[1] = "-" THEN -1 ELSE 1)

\* variant: the level is written out as configured
NearestStep_AsConfigured(n) == ToString(n)

\* min(FAN_OUTPUT_LEVEL_STEPS, key=lambda step: abs(step - numeric))
NearestStep(n) ==
  IF Abs(33 - n) <= Abs(66 - n) /\ Abs(33 - n) <= Abs(100 - n) THEN "33"
  ELSE IF Abs(66 - n) <= Abs(100 - n) THEN "66"
  ELSE "100"

\* the step of a number: auto at or below 0, 100 at or above 100
SteppedLevel(numeric) ==
  IF numeric <= 0 THEN "auto"
  ELSE IF numeric >= 100 THEN "100"
  ELSE NearestStep(numeric)

\* text.endswith("%") and text[:-1]
WithoutPercent(text) ==
  IF text # << >> /\ text[Len(text)] = "%" THEN SubSeq(text, 1, Len(text) - 1) ELSE text

ParsedLevel(p, unreadable) ==
  IF p.ok THEN SteppedLevel(p.n) ELSE SteppedLevel(unreadable)

\* the text branch of _normalize_fan_level, the text stripped and lowered
LevelFromText(text, unreadable) ==
  IF text = <<"a", "u", "t", "o">> THEN "auto"
  ELSE ParsedLevel(ParseIntOfFloat(WithoutPercent(text)), unreadable)

\* variant: a missing level is auto
NormalizeFanLevel_NoneIsAuto(value, fallback) ==
  IF value.k = "none" THEN "auto"
  ELSE IF value.k = "int" THEN SteppedLevel(value.n)
  ELSE LevelFromText(LowerText(StripText(value.t)), fallback)

\* _normalize_fan_level; the fallback is a number (when negative, a text that
\* cannot be read gives ZONE_OUTPUT_LEVEL_DEFAULT)
NormalizeFanLevel(value, fallback) ==
  IF value.k = "none" THEN SteppedLevel(fallback)
  ELSE IF value.k = "int" THEN SteppedLevel(value.n)
  ELSE LevelFromText(LowerText(StripText(value.t)), IF fallback >= 0 THEN fallback ELSE 66)

FanLevelRank(level) ==
  IF level = "33" THEN 33
  ELSE IF level = "66" THEN 66
  ELSE IF level = "100" THEN 100
  ELSE 0

\* _max_fan_level; "" stands for None
MaxFanLevel(current, candidate) ==
  IF current = "" THEN candidate
  ELSE IF FanLevelRank(candidate) >= FanLevelRank(current) THEN candidate
  ELSE current

\* _safe_alert_threshold("humidity_danger", value, 75.0)
SafeHumidityThreshold(value) ==
  Max(55, Min(90, IF value = NA THEN 75 ELSE value))

\* variant: a configured threshold is used as it is
SafeAlertThreshold_AsConfigured(value) ==
  IF value = NA THEN CO_EMERGENCY_START ELSE value

\* _safe_alert_threshold("co_emergency", value, 15); NA is missing or malformed
SafeAlertThreshold(value) ==
  LET threshold == IF value = NA THEN CO_EMERGENCY_START ELSE value
  IN  Max(CO_THRESHOLD_MIN, Min(CO_THRESHOLD_MAX, threshold))

AqActiveKey(level) ==
  IF level = "level2" THEN "air_aq_upstairs_active" ELSE "air_aq_downstairs_active"

AqTimerKey(level) ==
  IF level = "level2" THEN "air_aq_upstairs_run" ELSE "air_aq_downstairs_run"

HumidifierActiveKey(level) ==
  IF level = "level1" THEN "air_downstairs_humidifier_active"
  ELSE "air_upstairs_humidifier_active"

AlertSwitchKey(idx) ==
  IF idx = 1 THEN "air_alert_1_active" ELSE "air_alert_2_active"

\* ------------------------------------------------------------ configuration
\* One telemetry item, one alert, one zone, one AQ level, one humidifier level.
Tel(id, stype, level) == [id |-> id, stype |-> stype, level |-> level, room |-> ""]

\* a telemetry item that names its room
TelRoom(id, stype, level, room) == [id |-> id, stype |-> stype, level |-> level, room |-> room]

Alert(enabled, ttype, threshold, outputs) ==
  [enabled |-> enabled, trigger_type |-> ttype, threshold |-> threshold,
   custom_trigger |-> "binary_sensor.test_alert", outputs |-> outputs]

Zone(enabled, level, triggers, threshold, outputs, output_level, boost) ==
  [enabled |-> enabled, level |-> level, triggers |-> triggers,
   threshold |-> threshold, outputs |-> outputs,
   output_level |-> RawLevel(output_level), boost_output_level |-> RawLevel(boost),
   rooms |-> {}, humidity_high |-> NA, condensation_risk |-> NA, mould_risk |-> NA]

\* a zone with rooms and the thresholds of its other triggers
ZoneRooms(zone, rooms, humidity_high, condensation_risk, mould_risk) ==
  [zone EXCEPT !.rooms = rooms, !.humidity_high = humidity_high,
               !.condensation_risk = condensation_risk, !.mould_risk = mould_risk]

NoZone == Zone(FALSE, "level1", {}, NA, {}, NA, NA)

AqLevel(present, enabled, triggers, thresholds, outputs, run_duration, output_level) ==
  [present |-> present, enabled |-> enabled, triggers |-> triggers,
   thresholds |-> thresholds, outputs |-> outputs,
   run_duration |-> run_duration, output_level |-> RawLevel(output_level)]

NoThresholds == [iaq_bad |-> NA, co_warning |-> NA]
NoAq == AqLevel(FALSE, FALSE, {}, NoThresholds, {}, NA, NA)

Humidifier(present, enabled, outputs, band_adjust, recovery_in_band) ==
  [present |-> present, enabled |-> enabled, outputs |-> outputs,
   band_adjust |-> band_adjust, recovery_in_band |-> recovery_in_band]

NoHumidifier == Humidifier(FALSE, FALSE, {}, 0, NA)

TimeGate(enabled, action) == [enabled |-> enabled, outside_action |-> action]

\* CO-focused installation: one CO sensor, a co_emergency alert whose
\* configured threshold 1 is clamped to 10, an AQ level driven by co_warning.
CfgCo ==
  [ telemetry |-> { Tel("sensor.co_val", "co", "level1") },
    alerts |-> << Alert(TRUE, "co_emergency", 1, {"fan.zone1", "switch.vent", "light.alert"}),
                  Alert(TRUE, "custom_binary", NA, {}) >>,
    zones |-> [ zone1 |-> Zone(TRUE, "level1", {"air_quality_bad"}, 50, {"fan.zone1"}, NA, NA),
                zone2 |-> Zone(TRUE, "level2", {"air_quality_bad"}, 50, {"fan.zone2"}, NA, NA) ],
    aq |-> [ level1 |-> AqLevel(TRUE, TRUE, {"co_warning"},
                                [iaq_bad |-> NA, co_warning |-> 5], {"fan.aq1"}, 1, 64),
             level2 |-> NoAq ],
    humidifiers |-> [ level1 |-> Humidifier(TRUE, TRUE, {"humidifier.l1"}, 0, NA),
                      level2 |-> NoHumidifier ],
    time_gate |-> TimeGate(FALSE, "unset"),
    presence_gate |-> [enabled |-> FALSE],
    target_low |-> 45, target_high |-> 55 ]

\* Two CO sensors, no co_emergency alert (default threshold 15, every known
\* zone / AQ output is a CO-emergency output).
CfgCoDefault ==
  [ telemetry |-> { Tel("sensor.co_val", "co", "level1"), Tel("sensor.co_up", "co", "level2") },
    alerts |-> << Alert(FALSE, "co_emergency", 20, {"fan.zone1"}) >>,
    zones |-> [ zone1 |-> Zone(TRUE, "level1", {"air_quality_bad"}, 50, {"fan.zone1"}, NA, NA),
                zone2 |-> NoZone ],
    aq |-> [ level1 |-> NoAq,
             level2 |-> AqLevel(TRUE, TRUE, {"co_warning"},
                                [iaq_bad |-> NA, co_warning |-> 5], {"switch.vent"}, 1, 100) ],
    humidifiers |-> [ level1 |-> NoHumidifier,
                      level2 |-> Humidifier(TRUE, FALSE, {"humidifier.l2"}, 0, NA) ],
    time_gate |-> TimeGate(FALSE, "unset"),
    presence_gate |-> [enabled |-> FALSE],
    target_low |-> 45, target_high |-> 55 ]

\* The installation of the regression tests: a custom alert, zone1, AQ level1
\* and a humidifier, all on level 1.
CfgAlert ==
  [ telemetry |-> { Tel("sensor.l1_iaq", "iaq", "level1"),
                    Tel("sensor.hall_h", "humidity", "level1") },
    alerts |-> << Alert(TRUE, "custom_binary", NA, {}) >>,
    zones |-> [ zone1 |-> Zone(TRUE, "level1", {"air_quality_bad"}, 50, {"fan.zone1"}, 66, 100),
                zone2 |-> NoZone ],
    aq |-> [ level1 |-> AqLevel(TRUE, TRUE, {"iaq_bad"},
                                [iaq_bad |-> 75, co_warning |-> NA], {"fan.aq1"}, 1, 66),
             level2 |-> NoAq ],
    humidifiers |-> [ level1 |-> Humidifier(TRUE, TRUE, {"humidifier.l1"}, 0, NA),
                      level2 |-> NoHumidifier ],
    time_gate |-> TimeGate(FALSE, "unset"),
    presence_gate |-> [enabled |-> FALSE],
    target_low |-> 45, target_high |-> 55 ]

\* Two AQ levels sharing an output, a zone sharing an output with AQ level2,
\* and a time gate whose outside action leaves everything untouched.
CfgAq ==
  [ telemetry |-> { Tel("sensor.l1_iaq", "iaq", "level1"),
                    Tel("sensor.l2_iaq", "iaq", "level2") },
    alerts |-> << >>,
    zones |-> [ zone1 |-> NoZone,
                zone2 |-> Zone(TRUE, "level2", {"air_quality_bad"}, 50, {"fan.zone2"}, 33, 20) ],
    aq |-> [ level1 |-> AqLevel(TRUE, TRUE, {"iaq_bad"},
                                [iaq_bad |-> 75, co_warning |-> NA], {"fan.aq1"}, 1, 66),
             level2 |-> AqLevel(TRUE, TRUE, {"iaq_bad"},
                                [iaq_bad |-> 75, co_warning |-> NA],
                                {"fan.aq1", "fan.zone2"}, 2, 100) ],
    humidifiers |-> [ level1 |-> NoHumidifier, level2 |-> NoHumidifier ],
    time_gate |-> TimeGate(TRUE, "pause"),
    presence_gate |-> [enabled |-> FALSE],
    target_low |-> 45, target_high |-> 55 ]

\* Two zones on different levels and an AQ level below them.
CfgZones ==
  [ telemetry |-> { Tel("sensor.l1_iaq", "iaq", "level1"),
                    Tel("sensor.l2_iaq", "iaq", "level2") },
    alerts |-> << >>,
    zones |-> [ zone1 |-> Zone(TRUE, "level1", {"air_quality_bad"}, 50, {"fan.zone1"}, 66, 100),
                zone2 |-> Zone(TRUE, "level2", {"air_quality_bad"}, 50, {"fan.zone2"}, 33, 66) ],
    aq |-> [ level1 |-> AqLevel(TRUE, TRUE, {"iaq_bad"},
                                [iaq_bad |-> 75, co_warning |-> NA], {"fan.aq1"}, 1, 66),
             level2 |-> NoAq ],
    humidifiers |-> [ level1 |-> NoHumidifier, level2 |-> NoHumidifier ],
    time_gate |-> TimeGate(FALSE, "unset"),
    presence_gate |-> [enabled |-> FALSE],
    target_low |-> 45, target_high |-> 55 ]

\* A kitchen zone with all four triggers (normal 33 %, boost 100 %) and a
\* second zone whose configured boost (20 -> 33 %) is below its normal 66 %.
CfgTriggers ==
  [ telemetry |-> { TelRoom("sensor.kitchen_h", "humidity", "level1", "kitchen"),
                    TelRoom("sensor.hall_h", "humidity", "level1", "hall"),
                    TelRoom("sensor.kitchen_t", "temperature", "level1", "kitchen"),
                    Tel("sensor.l1_iaq", "iaq", "level1") },
    alerts |-> << >>,
    zones |-> [ zone1 |-> ZoneRooms(Zone(TRUE, "level1",
                                         {"humidity_high", "air_quality_bad",
                                          "condensation_risk", "mould_risk"},
                                         50, {"fan.zone1"}, 33, 100),
                                    {"kitchen"}, 5, 4, 2),
                zone2 |-> ZoneRooms(Zone(TRUE, "level2", {"condensation_risk"},
                                         NA, {"fan.zone2"}, 66, 20),
                                    {}, NA, 4, NA) ],
    aq |-> [ level1 |-> NoAq, level2 |-> NoAq ],
    humidifiers |-> [ level1 |-> NoHumidifier, level2 |-> NoHumidifier ],
    time_gate |-> TimeGate(FALSE, "unset"),
    presence_gate |-> [enabled |-> FALSE],
    target_low |-> 45, target_high |-> 55 ]

\* An installation with both gates enabled: the time gate with the given
\* outside action, the presence gate with entities and present states.
CfgGate(action) ==
  [ telemetry |-> { Tel("sensor.l1_iaq", "iaq", "level1") },
    alerts |-> << >>,
    zones |-> [ zone1 |-> Zone(TRUE, "level1", {"air_quality_bad"}, 50, {"fan.zone1"}, 66, 100),
                zone2 |-> NoZone ],
    aq |-> [ level1 |-> AqLevel(TRUE, TRUE, {"iaq_bad"},
                                [iaq_bad |-> 75, co_warning |-> NA], {"fan.aq1"}, 1, 66),
             level2 |-> NoAq ],
    humidifiers |-> [ level1 |-> Humidifier(TRUE, TRUE, {"humidifier.l1"}, 0, NA),
                      level2 |-> Humidifier(TRUE, TRUE, {}, 0, NA) ],
    time_gate |-> TimeGate(TRUE, action),
    presence_gate |-> [enabled |-> TRUE],
    target_low |-> 45, target_high |-> 55 ]

\* the outside actions of the gate scenarios ("unset": the key is missing)
GateActions == {"no_action", "safe_state", "unset"}

\* A scenario: a configuration, the readings each sensor can take, the host
\* controls the environment operates, and the flags restored as on at start.
Scenarios ==
  { [ cfg |-> CfgCo,
      values |-> [ e \in {"sensor.co_val"} |-> {NA, 4, 8, 12} ],
      knobs |-> {"air_control_enabled", "binary"},
      restored |-> {} ],
    [ cfg |-> CfgCoDefault,
      values |-> [ e \in {"sensor.co_val", "sensor.co_up"} |-> {NA, 6, 12, 16} ],
      knobs |-> {"pause", "air_isolate_fan_outputs"},
      restored |-> {"air_upstairs_humidifier_active", "air_aq_downstairs_active"} ],
    [ cfg |-> CfgAlert,
      values |-> [ e \in {"sensor.l1_iaq", "sensor.hall_h"} |->
                     IF e = "sensor.l1_iaq" THEN {40, 60, 85} ELSE {NA, 44, 47, 50} ],
      knobs |-> {"binary", "air_isolate_humidifier_outputs"},
      restored |-> {} ],
    [ cfg |-> CfgAq,
      values |-> [ e \in {"sensor.l1_iaq", "sensor.l2_iaq"} |->
                     IF e = "sensor.l1_iaq" THEN {60, 85} ELSE {40, 60, 85} ],
      knobs |-> {"window"},
      restored |-> {"air_aq_upstairs_active"} ] }
  \cup
  { [ cfg |-> CfgGate(a),
      values |-> [ e \in {"sensor.l1_iaq"} |-> {60, 85} ],
      knobs |-> {"window", "presence"},
      restored |-> {"air_upstairs_humidifier_active"} ] : a \in GateActions }
  \cup
  { [ cfg |-> CfgZones,
      values |-> [ e \in {"sensor.l1_iaq", "sensor.l2_iaq"} |->
                     IF e = "sensor.l1_iaq" THEN {40, 60, 85} ELSE {40, 85} ],
      knobs |-> {},
      restored |-> {} ] }
  \cup
  { [ cfg |-> CfgTriggers,
      values |-> [ e \in {"sensor.kitchen_h", "sensor.hall_h", "sensor.kitchen_t",
                          "sensor.l1_iaq"} |->
                     CASE e = "sensor.kitchen_h" -> {NA, 50, 70, 90}
                       [] e = "sensor.hall_h" -> {50, 90}
                       [] e = "sensor.kitchen_t" -> {22}
                       [] OTHER -> {40, 85} ],
      knobs |-> {},
      restored |-> {} ] }

\* --------------------------------------------------------------- variables
VARIABLES
  cfg,                 \* the configuration the engine was constructed with
  scn,                 \* the scenario (value domains, knobs) of this run
  now,                 \* wall clock, in ticks
  sens,                \* current state of every telemetry sensor
  binaryOn,            \* state of binary_sensor.test_alert
  inWindow,            \* the clock is inside the time gate's window
  present,             \* some presence entity is in a present state
  bools,               \* hi_input_booleans: key -> is_on
  uiTimers,            \* hi_timers, the AQ run timers: key -> started and not cancelled since
  pauseEnd,            \* hi_timers, air_control_pause: its end time (NoTime: idle)
  coEmergencyActive,   \* _co_emergency_active
  coBelowSince,        \* _co_below_since
  aqTasks,             \* _aq_tasks: level -> task id (NoTask: no entry)
  aqTimers,            \* the asyncio tasks created by _start_aq that are not done
  aqTriggerActive,     \* _aq_trigger_active
  lastAlert,           \* _last_alert: alert index -> time of the last flash
  runtimeMode,         \* data["runtime_mode"]
  runtimeReason,       \* data["runtime_reason"]: the reason and its notices
  cmds,                \* requests made to the output driver in the last cycle
  calls,               \* requests of the last step that reached the host (not isolated)
  ran,                 \* lane handlers that ran in the last cycle
  lane,                \* the branch of _evaluate that ended the last cycle
  last,                \* the last step taken: did it run a cycle, for which timer callback,
                       \* did the cycle end with the refresh, what became of an exception
  phase,               \* "new", "running" (async_start has run) or "stopped"
  startupRecheck,      \* due time of the pending startup recheck (NoTime: none)
  timerCmds,           \* output requests made by the last timer callback itself
  cleanSince,          \* history: start of the current run of cycles that saw every CO reading below clear
  evalPc,              \* position of each in-flight evaluation (await-granular runs)
  host,                \* the host's state of every output entity
  svc,                 \* the service calls the output driver issued in the last step
  drv,                 \* the last direct call of an output-driver operation
  flashes,             \* the alert indices whose flash effect the last step called
  flashLimited,        \* the alert indices whose flash the last step skipped for the rate limit
  flashedAt,           \* history: the time of the last flash call of each alert index
  humidifierCmd        \* history: the last command issued to each humidifier ("": none),
                       \* kept in the scenarios with the humidifier_log knob

vars ==
  << cfg, scn, now, sens, binaryOn, inWindow, present, bools, uiTimers, pauseEnd,
     coEmergencyActive, coBelowSince, aqTasks, aqTimers, aqTriggerActive,
     lastAlert, runtimeMode, runtimeReason, cmds, calls, ran, lane,
     last, phase, startupRecheck, timerCmds, cleanSince, evalPc, host, svc, drv,
     flashes, flashLimited, flashedAt, humidifierCmd >>

\* ------------------------------------------------------- telemetry reading
\* The engine and host state an evaluation reads and writes, as one record.
Cur ==
  [ now |-> now, sens |-> sens, binaryOn |-> binaryOn, inWindow |-> inWindow,
    present |-> present, bools |-> bools, ui |-> uiTimers, pause_end |-> pauseEnd,
    co_active |-> coEmergencyActive, co_below |-> coBelowSince,
    aq_tasks |-> aqTasks, tasks |-> aqTimers, trig |-> aqTriggerActive,
    last_alert |-> lastAlert, mode |-> runtimeMode, reason |-> runtimeReason,
    cmds |-> cmds, calls |-> calls, ran |-> ran, lane |-> lane, flash |-> {},
    limited |-> {} ]

\* The state of a sensor entity is a number, or one of: no state object (NA),
\* the states "unknown" and "unavailable", a text that float() cannot read.
STATE_UNKNOWN == -2
STATE_UNAVAILABLE == -3
STATE_TEXT == -4

\* variant: an unavailable sensor reads as zero
GetFloat_UnavailableIsZero(state) ==
  IF state = NA \/ state = STATE_UNKNOWN THEN NA
  ELSE IF state = STATE_UNAVAILABLE THEN 0
  ELSE IF state = STATE_TEXT THEN NA
  ELSE state

\* _get_float of an entity in the given state; NA is None
GetFloat(state) ==
  IF state = NA \/ state \in {STATE_UNKNOWN, STATE_UNAVAILABLE} THEN NA
  ELSE IF state = STATE_TEXT THEN NA
  ELSE state

\* the reading of every telemetry sensor
Readings(s) == [ e \in DOMAIN s.sens |-> GetFloat(s.sens[e]) ]

\* _collect_values: the available readings of every sensor of one type
CollectValues(s, stype) ==
  { GetFloat(s.sens[t.id]) :
      t \in { x \in cfg.telemetry : x.stype = stype /\ GetFloat(s.sens[x.id]) # NA } }

\* _level_avg, in tenths; level "" is None (whole house); NA when no reading
LevelAvg(s, stype, level) ==
  LET items == { x \in cfg.telemetry :
                   /\ x.stype = stype
                   /\ (level = "" \/ x.level = level)
                   /\ GetFloat(s.sens[x.id]) # NA }
      ids == { x.id : x \in items }
  IN  IF ids = {} THEN NA
      ELSE RoundTenths(SumOver(Readings(s), ids), Cardinality(ids))

\* _all_zone_outputs / _all_fan_outputs
AllZoneOutputs == UNION { cfg.zones[z].outputs : z \in ZoneKeys }
AllFanOutputs == AllZoneOutputs \cup UNION { cfg.aq[l].outputs : l \in Levels }

\* --------------------------------------------------------- CO emergency lane
CoAlertIdx ==
  { i \in DOMAIN cfg.alerts :
      cfg.alerts[i].enabled /\ cfg.alerts[i].trigger_type = "co_emergency" }

\* _co_emergency_settings: start threshold, clear threshold, outputs
CoEmergencySettings ==
  LET Settings(thresholds, configured) ==
        LET Band(start) ==
              LET Pick(clear0) ==
                    [ start |-> start,
                      clear |-> IF clear0 >= start THEN Max(0, start - 1) ELSE clear0,
                      outputs |-> IF configured # {} THEN configured ELSE AllFanOutputs ]
              IN  Pick(Max(0, start - CO_CLEAR_DELTA))
        IN  Band(IF thresholds = {} THEN CO_EMERGENCY_START
                 ELSE CHOOSE t \in thresholds : \A u \in thresholds : t <= u)
  IN  Settings({ SafeAlertThreshold(cfg.alerts[i].threshold) : i \in CoAlertIdx },
               UNION { cfg.alerts[i].outputs \cap (FanEntities \cup SwitchEntities)
                         : i \in CoAlertIdx })

\* variant: the latch follows the current readings
CoEmergencyTriggered_Unlatched(s) ==
  IF \E v \in CollectValues(s, "co") : v >= CoEmergencySettings.start
  THEN [ s |-> [s EXCEPT !.co_active = TRUE], triggered |-> TRUE ]
  ELSE [ s |-> [s EXCEPT !.co_active = FALSE], triggered |-> FALSE ]

\* _co_emergency_triggered: latches and reports the lane as triggered
CoEmergencyTriggered(s) ==
  IF \E v \in CollectValues(s, "co") : v >= CoEmergencySettings.start
  THEN [ s |-> [s EXCEPT !.co_active = TRUE], triggered |-> TRUE ]
  ELSE [ s |-> s, triggered |-> s.co_active ]

\* _co_clear_ready: tracks the below-since time, true after the 2 minute hold
CoClearReady(s) ==
  LET values == CollectValues(s, "co") IN
  IF values = {} THEN [ s |-> s, ready |-> FALSE ]
  ELSE IF \A v \in values : v < CoEmergencySettings.clear
  THEN LET since == IF s.co_below = NoTime THEN s.now ELSE s.co_below
       IN  [ s |-> [s EXCEPT !.co_below = since],
             ready |-> s.now - since >= CO_CLEAR_HOLD ]
  ELSE [ s |-> [s EXCEPT !.co_below = NoTime], ready |-> FALSE ]

\* ------------------------------------------------------------ output driver
\* _bool_is_on / _set_bool / _set_timer / _clear_timer
BoolIsOn(s, key) == s.bools[key]
SetBool(s, key, value) == [s EXCEPT !.bools[key] = value]
SetTimer(s, key, duration) ==
  IF key = "air_control_pause" THEN [s EXCEPT !.pause_end = s.now + duration]
  ELSE [s EXCEPT !.ui[key] = TRUE]
ClearTimer(s, key) ==
  IF key = "air_control_pause" THEN [s EXCEPT !.pause_end = NoTime]
  ELSE [s EXCEPT !.ui[key] = FALSE]

\* A request for every entity of outputs; it reaches the host unless isolated.
Drive(s, outputs, target, isolated, domains) ==
  LET req == { <<e, target>> : e \in outputs }
      hit == outputs \cap domains
  IN  [ s EXCEPT
          !.cmds = @ \cup req,
          !.calls = IF isolated THEN @ ELSE @ \cup { <<e, target>> : e \in hit } ]

\* _set_fan_outputs_level (the level is already normalised by the caller)
SetFanOutputsLevel(s, outputs, level) ==
  Drive(s, outputs, level, BoolIsOn(s, "air_isolate_fan_outputs"),
        FanEntities \cup SwitchEntities)

\* variant: releasing to auto is not subject to isolation
SetFanOutputsAuto_Unguarded(s, outputs) ==
  Drive(s, outputs, "auto", FALSE, FanEntities \cup SwitchEntities)

\* _set_fan_outputs_auto
SetFanOutputsAuto(s, outputs) ==
  Drive(s, outputs, "auto", BoolIsOn(s, "air_isolate_fan_outputs"),
        FanEntities \cup SwitchEntities)

\* _set_humidifier_outputs_state
SetHumidifierOutputsState(s, outputs, on) ==
  Drive(s, outputs, IF on THEN "on" ELSE "off",
        BoolIsOn(s, "air_isolate_humidifier_outputs"), Entities)

\* variant: nothing is excluded
SetZoneOutputsAuto_NoExclude(s, exclude) == SetFanOutputsAuto(s, AllZoneOutputs)

\* _set_zone_outputs_auto
SetZoneOutputsAuto(s, exclude) == SetFanOutputsAuto(s, AllZoneOutputs \ exclude)

\* _set_runtime_mode / _set_runtime_reason with _with_isolation_notice
SetRuntimeMode(s, mode) == [s EXCEPT !.mode = mode]

WithIsolationNotice(s, text) ==
  [ text |-> text,
    notices |-> (IF BoolIsOn(s, "air_isolate_fan_outputs") THEN {"fan"} ELSE {})
                \cup (IF BoolIsOn(s, "air_isolate_humidifier_outputs")
                      THEN {"humidifier"} ELSE {}) ]

SetRuntimeReason(s, text) == [s EXCEPT !.reason = WithIsolationNotice(s, text)]

\* ---------------------------------------------------------------- AQ timers
\* A task created by _start_aq: [id, level, due, st]; st is "sleeping" until
\* the sleep ends, "running" while its callback executes, "cancelling" when
\* cancelled but not yet unwound by the event loop.  A callback that the host
\* suspends inside an output command waits in "released" (release branch) or
\* "restarting" (restart branch); cancelled there it is "unwinding".  A task
\* that is done is no longer in the set.
SuspendedAt == {"released", "restarting"}
TaskIds == 1..MaxTasks
LiveIds(s) == { t.id : t \in s.tasks }

\* task and not task.done(), for the task stored for a level
AqRunning(s, level) ==
  s.aq_tasks[level] # NoTask /\ s.aq_tasks[level] \in LiveIds(s)

\* variant: only a task that is still in its sleep is cancelled
CancelTask_SleepingOnly(s, id) ==
  [s EXCEPT !.tasks = { t \in @ : ~(t.id = id /\ t.st = "sleeping") }]

\* task.cancel(): a sleeping task whose handle is dropped is simply gone; a
\* task suspended inside its callback gets CancelledError at that await, which
\* nothing on its stack catches; the task that is executing its own callback
\* keeps running to its end.
CancelTask(s, id) ==
  [s EXCEPT !.tasks = { IF t.id = id /\ t.st \in SuspendedAt
                        THEN [t EXCEPT !.st = "unwinding"] ELSE t :
                        t \in { x \in @ : ~(x.id = id /\ x.st = "sleeping") } }]

\* asyncio.create_task(_timer()): the handle of the new task
NewTaskId(s, level) ==
  LET free == TaskIds \ (LiveIds(s) \cup { s.aq_tasks[l] : l \in Levels \ {level} })
  IN  IF free = {} THEN MaxTasks ELSE CHOOSE i \in free : \A j \in free : i <= j

\* _cancel_aq_task
CancelAqTask(s, level) ==
  LET s1 == CancelTask(s, s.aq_tasks[level])
  IN  [s1 EXCEPT !.aq_tasks[level] = NoTask, !.trig[level] = FALSE]

\* the run duration of a level, in ticks
AqDuration(level) ==
  BoundedInt(cfg.aq[level].run_duration, 1, AQ_RUN_DURATION_MAX, AQ_RUN_DURATION_DEFAULT)
    * TICKS_PER_MINUTE

AqOutputLevel(level) ==
  NormalizeFanLevel(cfg.aq[level].output_level, ZONE_OUTPUT_LEVEL_DEFAULT)

\* variant: the stored task is not cancelled before the new one is stored
StartAq_NoCancel(s, level) ==
  LET Store(s3, id) ==
        [ s3 EXCEPT
            !.aq_tasks[level] = id,
            !.tasks = @ \cup { [ id |-> id, level |-> level,
                                 due |-> s.now + AqDuration(level), st |-> "sleeping" ] } ]
      Create(s3) == Store(s3, NewTaskId(s3, level))
      s1 == SetFanOutputsLevel(s, cfg.aq[level].outputs, AqOutputLevel(level))
      s2 == SetBool(s1, AqActiveKey(level), TRUE)
  IN  Create(SetTimer(s2, AqTimerKey(level), AqDuration(level)))

\* _start_aq: drive the outputs, raise the flag, start the UI timer, cancel the
\* stored task and store a fresh one
StartAq(s, level) ==
  LET Store(s4, id) ==
        [ s4 EXCEPT
            !.aq_tasks[level] = id,
            !.tasks = @ \cup { [ id |-> id, level |-> level,
                                 due |-> s.now + AqDuration(level), st |-> "sleeping" ] } ]
      Create(s4) == Store(s4, NewTaskId(s4, level))
      Cancel(s3) == Create(CancelTask(s3, s3.aq_tasks[level]))
      s1 == SetFanOutputsLevel(s, cfg.aq[level].outputs, AqOutputLevel(level))
      s2 == SetBool(s1, AqActiveKey(level), TRUE)
  IN  Cancel(SetTimer(s2, AqTimerKey(level), AqDuration(level)))

\* _aq_trigger_details is non-empty
AqTriggered(s, level) ==
  LET lc == cfg.aq[level]
      iaq == LevelAvg(s, "iaq", level)
      co == LevelAvg(s, "co", level)
  IN  \/ /\ "iaq_bad" \in lc.triggers
         /\ iaq # NA /\ lc.thresholds.iaq_bad # NA
         /\ iaq <= 10 * lc.thresholds.iaq_bad
      \/ /\ "co_warning" \in lc.triggers
         /\ co # NA /\ lc.thresholds.co_warning # NA
         /\ co >= 10 * lc.thresholds.co_warning

\* _deactivate_aq_activity
DeactivateAqActivity(s, set_fan_auto) ==
  LET s1 == [ s EXCEPT
                !.tasks = { IF t.st \in SuspendedAt /\ \E l \in Levels : s.aq_tasks[l] = t.id
                            THEN [t EXCEPT !.st = "unwinding"] ELSE t :
                            t \in { x \in @ : ~(x.st = "sleeping"
                                                 /\ \E l \in Levels : s.aq_tasks[l] = x.id) } },
                !.aq_tasks = [ l \in Levels |-> NoTask ] ]
      s2 == IF set_fan_auto
            THEN SetFanOutputsAuto(s1, UNION { cfg.aq[l].outputs : l \in Levels })
            ELSE s1
      s3 == [ s2 EXCEPT !.trig = [ l \in Levels |-> FALSE ] ]
      s4 == SetBool(SetBool(s3, "air_aq_upstairs_active", FALSE),
                    "air_aq_downstairs_active", FALSE)
  IN  ClearTimer(ClearTimer(s4, "air_aq_upstairs_run"), "air_aq_downstairs_run")

\* variant: retiring a level leaves its flag as it is
RetireAqLevel_KeepFlag(s, level) ==
  ClearTimer(CancelAqTask(s, level), AqTimerKey(level))

\* the three lines that retire a level in _handle_aq
RetireAqLevel(s, level) ==
  ClearTimer(SetBool(CancelAqTask(s, level), AqActiveKey(level), FALSE), AqTimerKey(level))

\* variant: a satisfied trigger starts a run in every cycle
HandleAqLevel_AlwaysRestart(r, level) ==
  LET Step(s, running, triggered) ==
        LET Done(s1) == [ s |-> [s1 EXCEPT !.trig[level] = triggered],
                          active |-> r.active \/ running \/ triggered ]
        IN  IF triggered THEN Done(StartAq(s, level))
            ELSE IF ~running THEN Done(RetireAqLevel(s, level))
            ELSE Done(s)
      Retire(s) == [ r EXCEPT !.s = [RetireAqLevel(s, level) EXCEPT !.trig[level] = FALSE] ]
      Level(lc) ==
        IF ~lc.present THEN r
        ELSE IF ~lc.enabled \/ lc.outputs = {} THEN Retire(r.s)
        ELSE Step(r.s, AqRunning(r.s, level), AqTriggered(r.s, level))
  IN  Level(cfg.aq[level])

\* _handle_aq, the body of the loop for one configured level
HandleAqLevel(r, level) ==
  LET Step(s, running, triggered, previously) ==
        LET Done(s1) == [ s |-> [s1 EXCEPT !.trig[level] = triggered],
                          active |-> r.active \/ running \/ triggered ]
        IN  IF triggered
            THEN IF ~running \/ ~previously THEN Done(StartAq(s, level)) ELSE Done(s)
            ELSE IF ~running THEN Done(RetireAqLevel(s, level)) ELSE Done(s)
      Retire(s) == [ r EXCEPT !.s = [RetireAqLevel(s, level) EXCEPT !.trig[level] = FALSE] ]
      Level(lc) ==
        IF ~lc.present THEN r
        ELSE IF ~lc.enabled \/ lc.outputs = {} THEN Retire(r.s)
        ELSE Step(r.s, AqRunning(r.s, level), AqTriggered(r.s, level), r.s.trig[level])
  IN  Level(cfg.aq[level])

\* _handle_aq
HandleAq(s) ==
  LET missing == { l \in Levels : ~cfg.aq[l].present }
      m1 == IF "level1" \in missing
            THEN [RetireAqLevel(s, "level1") EXCEPT !.trig["level1"] = FALSE] ELSE s
      m2 == IF "level2" \in missing
            THEN [RetireAqLevel(m1, "level2") EXCEPT !.trig["level2"] = FALSE] ELSE m1
      r0 == [ s |-> [m2 EXCEPT !.ran = @ \cup {"aq"}], active |-> FALSE ]
  IN  HandleAqLevel(HandleAqLevel(r0, "level1"), "level2")

\* _active_aq_outputs
ActiveAqOutputs(s) ==
  UNION { cfg.aq[l].outputs : l \in { x \in Levels : cfg.aq[x].present /\ AqRunning(s, x) } }

\* variant: no output is ever held back for another level
AqOutputsReservedByOtherLevels_None(s, level) == {}

\* _aq_outputs_reserved_by_other_levels
AqOutputsReservedByOtherLevels(s, level) ==
  UNION { cfg.aq[l].outputs :
            l \in { x \in Levels : x # level /\ cfg.aq[x].present /\ AqRunning(s, x) } }

\* --------------------------------------------------------------- alert lane
\* _alert_triggered
AlertTriggered(s, alert) ==
  IF alert.trigger_type = "custom_binary" THEN s.binaryOn
  ELSE IF alert.trigger_type = "humidity_danger"
  THEN \E v \in CollectValues(s, "humidity") : v >= SafeHumidityThreshold(alert.threshold)
  ELSE IF alert.trigger_type = "co_emergency"
  THEN \E v \in CollectValues(s, "co") : v >= SafeAlertThreshold(alert.threshold)
  ELSE FALSE

\* _clear_alert_activity_switches
ClearAlertActivitySwitches(s) ==
  SetBool(SetBool(s, "air_alert_1_active", FALSE), "air_alert_2_active", FALSE)

\* variant: the flash effect is called whenever the alert is triggered
HandleAlert_NoLimit(r, idx) ==
  IF idx > Len(cfg.alerts) \/ ~cfg.alerts[idx].enabled THEN r
  ELSE
    LET s == r.s
        triggered == AlertTriggered(s, cfg.alerts[idx])
        s1 == SetBool(s, AlertSwitchKey(idx), triggered)
    IN  IF ~triggered THEN [ r EXCEPT !.s = s1 ]
        ELSE [ s |-> [s1 EXCEPT !.last_alert[idx] = s.now, !.flash = @ \cup {idx}],
               active |-> TRUE ]

\* _handle_alerts, the body of the loop for the alert at position idx
HandleAlert(r, idx) ==
  IF idx > Len(cfg.alerts) \/ ~cfg.alerts[idx].enabled THEN r
  ELSE
    LET s == r.s
        triggered == AlertTriggered(s, cfg.alerts[idx])
        s1 == SetBool(s, AlertSwitchKey(idx), triggered)
        limited == s.last_alert[idx] # NoTime /\ s.now - s.last_alert[idx] < ALERT_FLASH_GAP
    IN  IF ~triggered THEN [ r EXCEPT !.s = s1 ]
        ELSE [ s |-> IF limited THEN [s1 EXCEPT !.limited = @ \cup {idx}]
                     ELSE [s1 EXCEPT !.last_alert[idx] = s.now, !.flash = @ \cup {idx}],
               active |-> TRUE ]

\* _handle_alerts
HandleAlerts(s) ==
  LET s0 == [ClearAlertActivitySwitches(s) EXCEPT !.ran = @ \cup {"alerts"}]
  IN  HandleAlert(HandleAlert([ s |-> s0, active |-> FALSE ], 1), 2)

\* _rooms_avg, in tenths
RoomsAvg(s, stype, rooms) ==
  LET ids == { x.id : x \in { y \in cfg.telemetry :
                 y.stype = stype /\ y.room \in rooms /\ GetFloat(s.sens[y.id]) # NA } }
  IN  IF rooms = {} \/ ids = {} THEN NA
      ELSE RoundTenths(SumOver(Readings(s), ids), Cardinality(ids))

\* _dew_point (Magnus formula, a = 17.62, b = 243.12), in tenths of a degree,
\* at the readings the scenarios use (22 degrees at 50, 70 and 90 %) and at
\* saturation, where the dew point is the temperature; NA is None
DewPoint(temp, rh) ==
  IF rh <= 0 THEN NA
  ELSE IF temp = 22 /\ rh = 50 THEN 111
  ELSE IF temp = 22 /\ rh = 70 THEN 163
  ELSE IF temp = 22 /\ rh = 90 THEN 203
  ELSE 10 * temp

\* _mould_level; the spread is in tenths
MouldLevel(rh, spread) ==
  Min(3, (IF rh >= 75 THEN 2 ELSE IF rh >= 68 THEN 1 ELSE 0)
         + (IF spread <= 20 THEN 2 ELSE IF spread <= 40 THEN 1 ELSE 0))

\* _room_map restricted to the rooms with a humidity and a temperature reading:
\* room -> spread in tenths and relative humidity
RoomSpreads(s) ==
  { [ rh |-> GetFloat(s.sens[h.id]),
      spread |-> 10 * GetFloat(s.sens[t.id])
                   - DewPoint(GetFloat(s.sens[t.id]), GetFloat(s.sens[h.id])) ] :
      <<h, t>> \in { p \in cfg.telemetry \X cfg.telemetry :
                       /\ p[1].stype = "humidity" /\ p[2].stype = "temperature"
                       /\ p[1].room # "" /\ p[1].room = p[2].room
                       /\ GetFloat(s.sens[p[1].id]) # NA /\ GetFloat(s.sens[p[2].id]) # NA
                       /\ GetFloat(s.sens[p[1].id]) > 0 } }

\* _worst_spread, in tenths; NA is None
WorstSpread(s) ==
  LET Least(spreads) ==
        IF spreads = {} THEN NA
        ELSE CHOOSE x \in spreads : \A y \in spreads : x <= y
  IN  Least({ r.spread : r \in RoomSpreads(s) })

\* _worst_mould_level
WorstMouldLevel(s) ==
  LET Most(levels) == CHOOSE x \in levels : \A y \in levels : x >= y
  IN  Most({0} \cup { MouldLevel(r.rh, r.spread) : r \in RoomSpreads(s) })

\* the triggers of a zone that are satisfied
ZoneTriggersSatisfied(s, zone) ==
  LET Delta(room_avg, house_avg) ==
        room_avg # NA /\ house_avg # NA /\ zone.humidity_high # NA
        /\ room_avg - house_avg >= 10 * zone.humidity_high
      Iaq(iaq) == iaq # NA /\ zone.threshold # NA /\ iaq <= 10 * zone.threshold
      Spread(spread) ==
        spread # NA /\ zone.condensation_risk # NA /\ spread <= 10 * zone.condensation_risk
  IN  { t \in zone.triggers :
          \/ t = "humidity_high"
             /\ Delta(RoomsAvg(s, "humidity", zone.rooms), LevelAvg(s, "humidity", ""))
          \/ t = "air_quality_bad" /\ Iaq(LevelAvg(s, "iaq", zone.level))
          \/ t = "condensation_risk" /\ Spread(WorstSpread(s))
          \/ t = "mould_risk" /\ zone.mould_risk # NA
             /\ WorstMouldLevel(s) >= zone.mould_risk }

\* variant: the boost level is taken as configured, also below the normal level
ZoneTriggerLevel_BoostAsConfigured(s, zone) ==
  LET Sel(cur, sat, cand) == IF sat THEN MaxFanLevel(cur, cand) ELSE cur
      Pick(sat, normal, boost) ==
        Sel(Sel(Sel(Sel("", "humidity_high" \in sat, normal),
                    "air_quality_bad" \in sat, normal),
                "condensation_risk" \in sat, boost),
            "mould_risk" \in sat, boost)
  IN  Pick(ZoneTriggersSatisfied(s, zone),
           NormalizeFanLevel(zone.output_level, ZONE_OUTPUT_LEVEL_DEFAULT),
           NormalizeFanLevel(zone.boost_output_level, ZONE_OUTPUT_LEVEL_BOOST_DEFAULT))

\* _zone_trigger_level: the selected level; "" is None
ZoneTriggerLevel(s, zone) ==
  LET Sel(cur, sat, cand) == IF sat THEN MaxFanLevel(cur, cand) ELSE cur
      Pick(sat, normal, boost) ==
        Sel(Sel(Sel(Sel("", "humidity_high" \in sat, normal),
                    "air_quality_bad" \in sat, normal),
                "condensation_risk" \in sat, boost),
            "mould_risk" \in sat, boost)
      Clamped(normal, boost) ==
        Pick(ZoneTriggersSatisfied(s, zone), normal,
             IF FanLevelRank(boost) < FanLevelRank(normal) THEN normal ELSE boost)
  IN  Clamped(NormalizeFanLevel(zone.output_level, ZONE_OUTPUT_LEVEL_DEFAULT),
              NormalizeFanLevel(zone.boost_output_level, ZONE_OUTPUT_LEVEL_BOOST_DEFAULT))

\* variant: a zone reports inactive while the fan outputs are isolated
HandleZoneByKey_IdleWhenIsolated(s, key) ==
  LET zone == cfg.zones[key]
      s0 == [s EXCEPT !.ran = @ \cup {key}]
      run_level == ZoneTriggerLevel(s, zone)
  IN  IF \/ ~zone.enabled \/ zone.triggers = {} \/ zone.outputs = {} \/ run_level = ""
         \/ BoolIsOn(s, "air_isolate_fan_outputs")
      THEN [ s |-> s0, active |-> FALSE ]
      ELSE [ s |-> SetFanOutputsLevel(s0, zone.outputs, run_level), active |-> TRUE ]

\* _handle_zone_by_key
HandleZoneByKey(s, key) ==
  LET zone == cfg.zones[key]
      s0 == [s EXCEPT !.ran = @ \cup {key}]
      Run(run_level) ==
        IF ~zone.enabled \/ zone.triggers = {} \/ zone.outputs = {} \/ run_level = ""
        THEN [ s |-> s0, active |-> FALSE ]
        ELSE [ s |-> SetFanOutputsLevel(s0, zone.outputs, run_level), active |-> TRUE ]
  IN  Run(ZoneTriggerLevel(s, zone))

\* ---------------------------------------------------------- humidifier lane
\* variant: the humidifier flags are left as they are
DeactivateHumidifierActivity_KeepFlags(s, turn_off_outputs) ==
  IF turn_off_outputs
  THEN SetHumidifierOutputsState(
         s, UNION { cfg.humidifiers[l].outputs : l \in Levels }, FALSE)
  ELSE s

\* _deactivate_humidifier_activity
DeactivateHumidifierActivity(s, turn_off_outputs) ==
  LET s1 == IF turn_off_outputs
            THEN SetHumidifierOutputsState(
                   s, UNION { cfg.humidifiers[l].outputs : l \in Levels }, FALSE)
            ELSE s
  IN  SetBool(SetBool(s1, "air_downstairs_humidifier_active", FALSE),
              "air_upstairs_humidifier_active", FALSE)

\* variant: no recovery band, the lane runs until the high target
HandleHumidifierLevel_OffAtHigh(s, level) ==
  LET hc == cfg.humidifiers[level]
      key == HumidifierActiveKey(level)
      avg == LevelAvg(s, "humidity", level)
      recovery == Max(1, Min(8, IF hc.recovery_in_band = NA
                                THEN HUMIDIFIER_RECOVERY_IN_BAND_DEFAULT
                                ELSE hc.recovery_in_band))
      low == cfg.target_low + hc.band_adjust
      high == cfg.target_high + hc.band_adjust
      recovery_off == high
      on == BoolIsOn(s, key)
  IN  IF ~hc.present THEN SetBool(s, key, FALSE)
      ELSE IF ~hc.enabled
      THEN SetBool(SetHumidifierOutputsState(s, hc.outputs, FALSE), key, FALSE)
      ELSE IF hc.outputs = {} \/ avg = NA THEN SetBool(s, key, FALSE)
      ELSE IF avg <= 10 * low
      THEN IF ~on THEN SetBool(SetHumidifierOutputsState(s, hc.outputs, TRUE), key, TRUE)
           ELSE s
      ELSE IF avg >= 10 * recovery_off
      THEN IF on THEN SetBool(SetHumidifierOutputsState(s, hc.outputs, FALSE), key, FALSE)
           ELSE s
      ELSE s

\* _handle_humidifiers, one level
HandleHumidifierLevel(s, level) ==
  LET hc == cfg.humidifiers[level]
      key == HumidifierActiveKey(level)
      avg == LevelAvg(s, "humidity", level)
      recovery == Max(1, Min(8, IF hc.recovery_in_band = NA
                                THEN HUMIDIFIER_RECOVERY_IN_BAND_DEFAULT
                                ELSE hc.recovery_in_band))
      low == cfg.target_low + hc.band_adjust
      high == cfg.target_high + hc.band_adjust
      recovery_off == Min(high, low + recovery)
      on == BoolIsOn(s, key)
  IN  IF ~hc.present THEN SetBool(s, key, FALSE)
      ELSE IF ~hc.enabled
      THEN SetBool(SetHumidifierOutputsState(s, hc.outputs, FALSE), key, FALSE)
      ELSE IF hc.outputs = {} \/ avg = NA THEN SetBool(s, key, FALSE)
      ELSE IF avg <= 10 * low
      THEN IF ~on THEN SetBool(SetHumidifierOutputsState(s, hc.outputs, TRUE), key, TRUE)
           ELSE s
      ELSE IF avg >= 10 * recovery_off
      THEN IF on THEN SetBool(SetHumidifierOutputsState(s, hc.outputs, FALSE), key, FALSE)
           ELSE s
      ELSE s

\* variant: only the levels that can run are visited
HandleHumidifiers_UsableOnly(s) ==
  LET Visit(x, level) ==
        IF cfg.humidifiers[level].present /\ cfg.humidifiers[level].enabled
           /\ cfg.humidifiers[level].outputs # {}
        THEN HandleHumidifierLevel(x, level) ELSE x
  IN  Visit(Visit([s EXCEPT !.ran = @ \cup {"humidifiers"}], "level1"), "level2")

\* _handle_humidifiers
HandleHumidifiers(s) ==
  HandleHumidifierLevel(
    HandleHumidifierLevel([s EXCEPT !.ran = @ \cup {"humidifiers"}], "level1"), "level2")

\* ------------------------------------------------------ lock, gate and pause
\* _control_lock_reason: "" is None
ControlLockReason(s) ==
  IF ~BoolIsOn(s, "air_control_enabled") THEN "control_disabled"
  ELSE IF BoolIsOn(s, "air_control_manual_override") THEN "manual_override"
  ELSE ""

\* variant: no_action makes the presence gate transparent as well
GateStatus_NoActionOpensAll(s) ==
  LET action == IF cfg.time_gate.outside_action = "unset" THEN "no_action"
                ELSE cfg.time_gate.outside_action
  IN  IF action = "no_action" THEN TRUE
      ELSE IF cfg.time_gate.enabled /\ ~s.inWindow THEN FALSE
      ELSE IF cfg.presence_gate.enabled THEN s.present
      ELSE TRUE

\* _gate_status: gates_ok
GateStatus(s) ==
  LET action == IF cfg.time_gate.outside_action = "unset" THEN "no_action"
                ELSE cfg.time_gate.outside_action
  IN  IF cfg.time_gate.enabled /\ ~s.inWindow
      THEN action = "no_action"
      ELSE IF cfg.presence_gate.enabled THEN s.present
      ELSE TRUE

\* variant: the pause timer is not consulted
PauseActive_Never(s) == FALSE

\* _pause_active
PauseActive(s) == s.pause_end # NoTime /\ s.now < s.pause_end

\* _return_to_normal
ReturnToNormal(s) ==
  LET s1 == ClearAlertActivitySwitches(s)
      s2 == SetZoneOutputsAuto(s1, {})
      s3 == DeactivateAqActivity(s2, TRUE)
      s4 == DeactivateHumidifierActivity(s3, TRUE)
  IN  SetRuntimeReason(SetRuntimeMode(s4, "normal"), "idle")

\* _deactivate_non_alert_activity
DeactivateNonAlertActivity(s) ==
  DeactivateHumidifierActivity(
    SetZoneOutputsAuto(DeactivateAqActivity(s, TRUE), {}), TRUE)

\* variant: the outputs outside the CO selection are left as they are
ApplyCoEmergency_SelectedOnly(s) ==
  LET Force(s4, outputs) ==
        SetRuntimeMode(SetFanOutputsLevel(s4, outputs, "100"), "co_emergency")
      s1 == DeactivateAqActivity(s, FALSE)
      s2 == DeactivateHumidifierActivity(s1, TRUE)
      s3 == ClearAlertActivitySwitches(s2)
  IN  Force(SetBool(s3, "air_co_emergency_active", TRUE), CoEmergencySettings.outputs)

\* _apply_co_emergency
ApplyCoEmergency(s) ==
  LET Force(s4, outputs) ==
        SetRuntimeMode(
          SetFanOutputsLevel(SetFanOutputsAuto(s4, AllFanOutputs \ outputs), outputs, "100"),
          "co_emergency")
      s1 == DeactivateAqActivity(s, FALSE)
      s2 == DeactivateHumidifierActivity(s1, TRUE)
      s3 == ClearAlertActivitySwitches(s2)
  IN  Force(SetBool(s3, "air_co_emergency_active", TRUE), CoEmergencySettings.outputs)

\* ------------------------------------------------------ the evaluation cycle
EndCycle(s, lane_name, text) ==
  [ s |-> [SetRuntimeReason(s, text) EXCEPT !.lane = lane_name], done |-> TRUE ]

\* _evaluate: the CO latch is published when the emergency is not triggered
TopPublish(s1) ==
  [ s |-> SetBool(s1, "air_co_emergency_active", s1.co_active), done |-> FALSE ]

\* _evaluate: the latch is dropped once _co_clear_ready says so
TopClear(clr) ==
  IF clr.ready THEN [clr.s EXCEPT !.co_active = FALSE, !.co_below = NoTime]
  ELSE clr.s

\* _evaluate: the CO emergency lane
TopCoLane(co) ==
  IF co.triggered THEN EndCycle(ApplyCoEmergency(co.s), "co", "co_emergency")
  ELSE IF co.s.co_active THEN TopPublish(TopClear(CoClearReady(co.s)))
  ELSE TopPublish(co.s)

\* _evaluate: the gate blocks, with the given outside action
TopGate(s, action) ==
  IF action = "safe_state"
  THEN EndCycle(SetRuntimeMode(ReturnToNormal(s), "global_gate"),
                "gate_safe", "gate_safe")
  ELSE EndCycle(SetRuntimeMode(s, "global_gate"), "gate_hold", "gate_hold")

\* _evaluate: control lock, global gate, pause, then the CO lane
TopLock(s, lock) ==
  IF lock # "" THEN EndCycle(ReturnToNormal(s), "lock", lock)
  ELSE IF ~GateStatus(s)
  THEN TopGate(s, IF cfg.time_gate.outside_action = "unset" THEN "safe_state"
                  ELSE cfg.time_gate.outside_action)
  ELSE IF PauseActive(s) THEN EndCycle(ReturnToNormal(s), "pause", "paused")
  ELSE TopCoLane(CoEmergencyTriggered(s))

\* _evaluate, from the control lock down to the CO emergency lane
EvalTop(s) == TopLock(s, ControlLockReason(s))

\* variant: an active alert lane leaves the lower lanes' activity alone
EvalAlerts_NoDeactivate(s) ==
  LET Lane(r) ==
        IF r.active
        THEN EndCycle(SetRuntimeMode(r.s, "alert"), "alert", "alert")
        ELSE [ s |-> r.s, done |-> FALSE ]
  IN  Lane(HandleAlerts(s))

\* _evaluate, the alert lane
EvalAlerts(s) ==
  LET Lane(r) ==
        IF r.active
        THEN EndCycle(SetRuntimeMode(DeactivateNonAlertActivity(r.s), "alert"),
                      "alert", "alert")
        ELSE [ s |-> r.s, done |-> FALSE ]
  IN  Lane(HandleAlerts(s))

\* _evaluate, end of the lower lanes: the mode the lanes give is published
LowerPublish(s1, mode) == EndCycle(SetRuntimeMode(s1, mode), "lanes", mode).s

\* _evaluate after _handle_aq: zone outputs to auto when no zone is active
LowerFinish(zone1_active, zone2_active, aq) ==
  LowerPublish(IF ~(zone1_active \/ zone2_active)
               THEN SetZoneOutputsAuto(
                      aq.s, IF aq.active THEN ActiveAqOutputs(aq.s) ELSE {})
               ELSE aq.s,
               IF zone1_active THEN "cooking"
               ELSE IF zone2_active THEN "bathroom"
               ELSE IF aq.active THEN "air_quality"
               ELSE "normal")

\* _evaluate after the zones: the AQ lane, or its stand-down under a zone
LowerAqLane(zone1_active, z2) ==
  LowerFinish(zone1_active, z2.active,
              IF ~(zone1_active \/ z2.active) THEN HandleAq(z2.s)
              ELSE [ s |-> DeactivateAqActivity(z2.s, FALSE), active |-> FALSE ])

\* _evaluate after zone1: zone2
LowerZone2(z1) == LowerAqLane(z1.active, HandleZoneByKey(z1.s, "zone2"))

\* variant: zone2's mode is published ahead of zone1's
EvalLower_Zone2First(s) ==
  LET Publish(s1, mode) == EndCycle(SetRuntimeMode(s1, mode), "lanes", mode).s
      Finish(zone1_active, zone2_active, aq) ==
        Publish(IF ~(zone1_active \/ zone2_active)
                THEN SetZoneOutputsAuto(
                       aq.s, IF aq.active THEN ActiveAqOutputs(aq.s) ELSE {})
                ELSE aq.s,
                IF zone2_active THEN "bathroom"
                ELSE IF zone1_active THEN "cooking"
                ELSE IF aq.active THEN "air_quality"
                ELSE "normal")
      AqLane(zone1_active, z2) ==
        Finish(zone1_active, z2.active,
               IF ~(zone1_active \/ z2.active) THEN HandleAq(z2.s)
               ELSE [ s |-> DeactivateAqActivity(z2.s, FALSE), active |-> FALSE ])
      Zone2(z1) == AqLane(z1.active, HandleZoneByKey(z1.s, "zone2"))
  IN  Zone2(HandleZoneByKey(HandleHumidifiers(s), "zone1"))

\* _evaluate, humidifiers, zone1, zone2, AQ and the published mode
EvalLower(s) == LowerZone2(HandleZoneByKey(HandleHumidifiers(s), "zone1"))

\* _evaluate
AfterAlerts(al) == IF al.done THEN al.s ELSE EvalLower(al.s)

AfterTop(top) == IF top.done THEN top.s ELSE AfterAlerts(EvalAlerts(top.s))

Evaluate(s) == AfterTop(EvalTop(s))

\* the exception leaves _evaluate's try block: the lanes so far have acted
Raise(s1) == [ s |-> [s1 EXCEPT !.lane = "raised"], raised |-> TRUE ]

\* the try block of _evaluate ends without an exception
Return(s1) == [ s |-> s1, raised |-> FALSE ]

\* _evaluate after the alert lane, raising at the lower lanes when at says so
RaisingAfterAlerts(al, at) ==
  IF al.done THEN Return(al.s)
  ELSE IF at = "lower" THEN Raise(al.s)
  ELSE Return(EvalLower(al.s))

\* _evaluate after the top lanes, raising at the alert lane when at says so
RaisingAfterTop(top, at) ==
  IF top.done THEN Return(top.s)
  ELSE IF at = "alerts" THEN Raise(top.s)
  ELSE RaisingAfterAlerts(EvalAlerts(top.s), at)

\* the lane logic of _evaluate cut short by an unexpected exception raised
\* by the first statement of the section `at` ("none": nothing is raised)
EvaluateRaising(s, at) ==
  IF at = "top" THEN Raise(s) ELSE RaisingAfterTop(EvalTop(s), at)

\* variant: the refresh is the last statement of the try block
EvaluateOutcome_NoFinally(raised) ==
  [ refreshed |-> ~raised, error |-> IF raised THEN "logged" ELSE "none" ]

\* the except and finally clauses of _evaluate: an exception is logged and
\* swallowed, and _refresh_core_entities runs on every way out
EvaluateOutcome(raised) ==
  [ refreshed |-> TRUE, error |-> IF raised THEN "logged" ELSE "none" ]

\* the record of a step
LastStep(cycle, timer, outcome) ==
  [ cycle |-> cycle, timer |-> timer,
    refreshed |-> outcome.refreshed, error |-> outcome.error ]

NoOutcome == [ refreshed |-> FALSE, error |-> "none" ]

\* one cycle, with the per-cycle logs started afresh
RunCycle(s) == Evaluate([s EXCEPT !.cmds = {}, !.calls = {}, !.ran = {}])

\* variant: an expiry starts the run again whether or not a trigger is satisfied
TimerCallback_AlwaysRestarts(s, t) ==
  LET s0 == [s EXCEPT !.cmds = {}, !.calls = {}, !.ran = {},
                      !.tasks = (@ \ {t}) \cup {[t EXCEPT !.st = "running"]}]
      body == StartAq(s0, t.level)
  IN  [ s |-> [body EXCEPT !.cmds = s.cmds, !.ran = s.ran,
                           !.tasks = { x \in @ : x.id # t.id }],
        tcmds |-> body.cmds,
        cycle |-> FALSE ]

\* variant: an expiry with the trigger still satisfied re-commands the outputs
\* but schedules nothing
TimerCallback_NoReschedule(s, t) ==
  LET level == t.level
      outputs == cfg.aq[level].outputs
      Finish(body, tcmds, restart) ==
        [ s |-> [ (IF restart
                   THEN [body EXCEPT !.cmds = s.cmds, !.ran = s.ran]
                   ELSE body) EXCEPT !.tasks = { x \in @ : x.id # t.id } ],
          tcmds |-> IF restart THEN body.cmds ELSE tcmds,
          cycle |-> ~restart ]
      Nested(r2, e) == Finish([e EXCEPT !.calls = @ \cup r2.calls], r2.cmds, FALSE)
      Release(r2) == Nested(r2, RunCycle([r2 EXCEPT !.trig[level] = FALSE]))
      Body(s0) ==
        IF AqTriggered(s0, level)
        THEN Finish(SetFanOutputsLevel(s0, outputs, AqOutputLevel(level)), {}, TRUE)
        ELSE Release(ClearTimer(
               SetBool(SetFanOutputsAuto(
                         s0, outputs \ AqOutputsReservedByOtherLevels(s0, level)),
                       AqActiveKey(level), FALSE),
               AqTimerKey(level)))
  IN  Body([s EXCEPT !.cmds = {}, !.calls = {}, !.ran = {},
                     !.tasks = (@ \ {t}) \cup {[t EXCEPT !.st = "running"]}])

\* _start_aq._timer, after the sleep: restart, or release and re-evaluate
TimerCallback(s, t) ==
  LET level == t.level
      outputs == cfg.aq[level].outputs
      Finish(body, tcmds, restart) ==
        [ s |-> [ (IF restart
                   THEN [body EXCEPT !.cmds = s.cmds, !.ran = s.ran]
                   ELSE body) EXCEPT !.tasks = { x \in @ : x.id # t.id } ],
          tcmds |-> IF restart THEN body.cmds ELSE tcmds,
          cycle |-> ~restart ]
      Nested(r2, e) == Finish([e EXCEPT !.calls = @ \cup r2.calls], r2.cmds, FALSE)
      Release(r2) == Nested(r2, RunCycle([r2 EXCEPT !.trig[level] = FALSE]))
      Body(s0) ==
        IF AqTriggered(s0, level)
        THEN Finish(StartAq(s0, level), {}, TRUE)
        ELSE Release(ClearTimer(
               SetBool(SetFanOutputsAuto(
                         s0, outputs \ AqOutputsReservedByOtherLevels(s0, level)),
                       AqActiveKey(level), FALSE),
               AqTimerKey(level)))
  IN  Body([s EXCEPT !.cmds = {}, !.calls = {}, !.ran = {},
                     !.tasks = (@ \ {t}) \cup {[t EXCEPT !.st = "running"]}])

\* _start_aq._timer from the end of the sleep to the output commands of its
\* branch, where the host suspends it
TimerWake(s, t) ==
  LET level == t.level
      outputs == cfg.aq[level].outputs
      Mark(s1, st) ==
        [ s1 EXCEPT !.tasks = { IF x.id = t.id THEN [x EXCEPT !.st = st] ELSE x : x \in @ } ]
      Body(s0) ==
        IF AqTriggered(s0, level)
        THEN Mark(SetFanOutputsLevel(s0, outputs, AqOutputLevel(level)), "restarting")
        ELSE Mark(SetFanOutputsAuto(
                    s0, outputs \ AqOutputsReservedByOtherLevels(s0, level)), "released")
  IN  Body([s EXCEPT !.cmds = {}, !.calls = {}, !.ran = {},
                     !.tasks = (@ \ {t}) \cup {[t EXCEPT !.st = "running"]}])

\* _start_aq after its output commands: raise the flag, start the UI timer,
\* cancel the stored task and store a fresh one
StartAqRest(s, level) ==
  LET Store(s4, id) ==
        [ s4 EXCEPT
            !.aq_tasks[level] = id,
            !.tasks = @ \cup { [ id |-> id, level |-> level,
                                 due |-> s.now + AqDuration(level), st |-> "sleeping" ] } ]
      Create(s4) == Store(s4, NewTaskId(s4, level))
      Cancel(s3) == Create(CancelTask(s3, s3.aq_tasks[level]))
  IN  Cancel(SetTimer(SetBool(s, AqActiveKey(level), TRUE),
                      AqTimerKey(level), AqDuration(level)))

\* _start_aq._timer resumed after the output commands of its branch
TimerResumed(s, t) ==
  LET level == t.level
      Gone(s5) == [ s5 EXCEPT !.tasks = { x \in @ : x.id # t.id } ]
      Release(r2) == RunCycle([r2 EXCEPT !.trig[level] = FALSE])
      Body(s0) ==
        IF t.st = "restarting"
        THEN [ s |-> Gone([StartAqRest(s0, level) EXCEPT !.cmds = s.cmds, !.ran = s.ran]),
               cycle |-> FALSE ]
        ELSE [ s |-> Gone(Release(ClearTimer(SetBool(s0, AqActiveKey(level), FALSE),
                                             AqTimerKey(level)))),
               cycle |-> TRUE ]
  IN  Body([s EXCEPT !.cmds = {}, !.calls = {}, !.ran = {},
                     !.tasks = (@ \ {t}) \cup {[t EXCEPT !.st = "running"]}])

\* ------------------------------------------------------------------ actions
\* history: the cycle saw every configured CO sensor below the clear threshold
AllCoBelowClear(s) ==
  LET co == { x \in cfg.telemetry : x.stype = "co" }
  IN  /\ co # {}
      /\ \A x \in co : GetFloat(s.sens[x.id]) # NA
                      /\ GetFloat(s.sens[x.id]) < CoEmergencySettings.clear

\* ------------------------------------------------------- the output driver
\* the host's state object of an entity: state "none" is no state object
HostState(state, percentage, preset) ==
  [ state |-> state, percentage |-> percentage, preset |-> preset ]

HostInit == [ e \in Entities |-> HostState("off", NA, "") ]

\* what a service call does to the entity once the host has run it
HostEffect(hs, service, arg) ==
  IF service = "fan.turn_on" THEN [hs EXCEPT !.state = "on"]
  ELSE IF service = "fan.set_percentage"
  THEN HostState("on", FanLevelRank(arg), "")
  ELSE IF service = "fan.set_preset_mode" THEN HostState("on", NA, arg)
  ELSE IF service \in {"switch.turn_on", "humidifier.turn_on"}
  THEN [hs EXCEPT !.state = "on"]
  ELSE [hs EXCEPT !.state = "off"]

\* hass.services.async_call for the calls of one operation on one entity:
\* "ok" runs them all, "lost" issues them all without effect (blocking=False),
\* "raise" has the first call raise, which ends the operation for the entity
IssueCalls(hs, e, first, second, how) ==
  LET Apply(h1) == IF second = << >> THEN h1 ELSE HostEffect(h1, second[1], second[2])
  IN  [ h |-> IF how = "ok" THEN Apply(HostEffect(hs, first[1], first[2])) ELSE hs,
        svc |-> { <<e, 1, first[1], first[2]>> }
                  \cup (IF second = << >> \/ how = "raise" THEN {}
                        ELSE { <<e, 2, second[1], second[2]>> }) ]

NoCalls(hs) == [ h |-> hs, svc |-> {} ]

\* _set_fan_percentage for one entity; level is "33", "66" or "100"
SetFanPercentage(hs, e, level, how) ==
  IF e \in FanEntities
  THEN IF hs.state = "on" /\ hs.percentage # NA /\ hs.percentage = FanLevelRank(level)
       THEN NoCalls(hs)
       ELSE IF hs.state # "on"
       THEN IssueCalls(hs, e, <<"fan.turn_on", "">>, <<"fan.set_percentage", level>>, how)
       ELSE IssueCalls(hs, e, <<"fan.set_percentage", level>>, << >>, how)
  ELSE IF e \in SwitchEntities
  THEN IF hs.state = "on" THEN NoCalls(hs)
       ELSE IssueCalls(hs, e, <<"switch.turn_on", "">>, << >>, how)
  ELSE NoCalls(hs)

\* variant: the preset mode is set without looking at the state
SetFanAuto_NoSkip(hs, e, how) ==
  IF e \in FanEntities
  THEN IssueCalls(hs, e, <<"fan.set_preset_mode", "auto">>, << >>, how)
  ELSE IF e \in SwitchEntities
  THEN IssueCalls(hs, e, <<"switch.turn_off", "">>, << >>, how)
  ELSE NoCalls(hs)

\* _set_fan_auto for one entity
SetFanAuto(hs, e, how) ==
  IF e \in FanEntities
  THEN IF hs.preset = "auto" THEN NoCalls(hs)
       ELSE IssueCalls(hs, e, <<"fan.set_preset_mode", "auto">>, << >>, how)
  ELSE IF e \in SwitchEntities
  THEN IF hs.state = "off" THEN NoCalls(hs)
       ELSE IssueCalls(hs, e, <<"switch.turn_off", "">>, << >>, how)
  ELSE NoCalls(hs)

\* _set_humidifier_state for one entity
SetHumidifierState(hs, e, on, how) ==
  IF hs.state = (IF on THEN "on" ELSE "off") THEN NoCalls(hs)
  ELSE IssueCalls(hs, e, <<(IF on THEN "humidifier.turn_on" ELSE "humidifier.turn_off"), "">>,
                  << >>, how)

\* the operation a request of the engine runs
DriverOp(hs, e, target, how) ==
  IF target \in {"on", "off"} THEN SetHumidifierState(hs, e, target = "on", how)
  ELSE IF target = "auto" THEN SetFanAuto(hs, e, how)
  ELSE SetFanPercentage(hs, e, target, how)

\* the requests of one step run one after the other (in the configurations
\* with a host a step makes at most one request per entity)
RECURSIVE DriverRun(_, _, _)
DriverRun(h, reqs, failing) ==
  IF reqs = {} THEN [ host |-> h, svc |-> {} ]
  ELSE LET Rest(c, r) ==
             LET Join(rest) == [ host |-> rest.host, svc |-> r.svc \cup rest.svc ]
             IN  Join(DriverRun([h EXCEPT ![c[1]] = r.h], reqs \ {c}, failing))
           One(c) ==
             Rest(c, DriverOp(h[c[1]], c[1], c[2],
                              IF c[1] \in failing THEN "lost" ELSE "ok"))
       IN  One(CHOOSE c \in reqs : TRUE)

\* the host after the requests of a step; any of them may fail
HostFollows(requests) ==
  IF "host" \notin scn.knobs THEN UNCHANGED <<host, svc>>
  ELSE \E failing \in SUBSET { c[1] : c \in requests } :
         \E r \in { DriverRun(host, requests, failing) } :
           host' = r.host /\ svc' = r.svc

NoDrv == [ e |-> "", target |-> "", how |-> "", repeat |-> FALSE ]

Commit(s) ==
  \E c \in {s} :
    /\ HostFollows(c.calls)
    /\ UNCHANGED drv
    /\ flashes' = c.flash /\ flashLimited' = c.limited
    /\ flashedAt' = [ i \in 1..2 |-> IF i \in c.flash THEN c.now ELSE flashedAt[i] ]
    /\ humidifierCmd' = [ e \in HumidifierEntities |->
                            IF "humidifier_log" \notin scn.knobs THEN humidifierCmd[e]
                            ELSE IF <<e, "on">> \in c.calls THEN "on"
                            ELSE IF <<e, "off">> \in c.calls THEN "off"
                            ELSE humidifierCmd[e] ]
    /\ now' = c.now
    /\ sens' = c.sens
    /\ binaryOn' = c.binaryOn
    /\ inWindow' = c.inWindow
    /\ present' = c.present
    /\ bools' = c.bools
    /\ uiTimers' = c.ui
    /\ pauseEnd' = c.pause_end
    /\ coEmergencyActive' = c.co_active
    /\ coBelowSince' = c.co_below
    /\ aqTasks' = c.aq_tasks
    /\ aqTimers' = c.tasks
    /\ aqTriggerActive' = c.trig
    /\ lastAlert' = c.last_alert
    /\ runtimeMode' = c.mode
    /\ runtimeReason' = c.reason
    /\ cmds' = c.cmds
    /\ calls' = c.calls
    /\ ran' = c.ran
    /\ lane' = c.lane

\* a step that ran one evaluation cycle on the state s
Cycle(s) ==
  LET Done(e) ==
        /\ Commit(e)
        /\ cleanSince' = IF AllCoBelowClear(e)
                         THEN (IF cleanSince = NoTime THEN e.now ELSE cleanSince)
                         ELSE NoTime
  IN  /\ Done(RunCycle(s))
      /\ last' = LastStep(TRUE, "", EvaluateOutcome(FALSE))
      /\ timerCmds' = {}
      /\ UNCHANGED <<cfg, scn, evalPc>>

\* a step that runs no engine code; the logs of the last cycle are dropped
Quiet ==
  /\ last' = LastStep(FALSE, "", NoOutcome)
  /\ cmds' = {} /\ calls' = {} /\ ran' = {} /\ lane' = "none" /\ timerCmds' = {}
  /\ svc' = {} /\ flashes' = {} /\ flashLimited' = {}
  /\ UNCHANGED <<host, drv, flashedAt, humidifierCmd>>
  /\ UNCHANGED <<cfg, scn, bools, uiTimers, pauseEnd, coEmergencyActive, coBelowSince, aqTasks,
                 aqTriggerActive, lastAlert, runtimeMode, runtimeReason,
                 cleanSince, evalPc>>

\* async_start: subscribe, evaluate once, schedule the startup recheck
Start ==
  /\ phase = "new"
  /\ phase' = "running"
  /\ startupRecheck' = now + STARTUP_RECHECK_TICKS
  /\ Cycle(Cur)

\* _handle_change for a telemetry sensor
HandleChange ==
  /\ phase = "running"
  /\ \E e \in DOMAIN sens : \E v \in scn.values[e] \ {sens[e]} :
       Cycle([Cur EXCEPT !.sens[e] = v])
  /\ UNCHANGED <<phase, startupRecheck>>

\* _handle_change for one of the host switches the engine listens to
HandleSwitch ==
  /\ phase = "running"
  /\ \E k \in scn.knobs \cap BoolKeys : Cycle([Cur EXCEPT !.bools[k] = ~bools[k]])
  /\ UNCHANGED <<phase, startupRecheck>>

\* _periodic_check
PeriodicCheck ==
  /\ phase = "running"
  /\ Cycle(Cur)
  /\ UNCHANGED <<phase, startupRecheck>>

\* _schedule_startup_recheck._startup_recheck, after the sleep
StartupRecheck ==
  /\ phase = "running"
  /\ startupRecheck # NoTime /\ startupRecheck <= now
  /\ startupRecheck' = NoTime
  /\ Cycle(Cur)
  /\ UNCHANGED phase

\* services.handle_pause_control
PauseControl ==
  /\ phase = "running"
  /\ "pause" \in scn.knobs
  /\ Cycle(SetTimer(Cur, "air_control_pause", PAUSE_TICKS))
  /\ UNCHANGED <<phase, startupRecheck>>

\* services.handle_resume_control
ResumeControl ==
  /\ phase = "running"
  /\ "pause" \in scn.knobs
  /\ pauseEnd # NoTime
  /\ Cycle(ClearTimer(Cur, "air_control_pause"))
  /\ UNCHANGED <<phase, startupRecheck>>

\* HITimerSensor.async_start._finish of the pause timer: the state write
\* reaches _handle_change
PauseFinish ==
  /\ phase = "running"
  /\ pauseEnd # NoTime /\ pauseEnd <= now
  /\ Cycle(ClearTimer(Cur, "air_control_pause"))
  /\ UNCHANGED <<phase, startupRecheck>>

\* _start_aq._timer: the sleep of a run timer ends
TimerExpire ==
  /\ \E t \in aqTimers :
       /\ t.st = "sleeping" /\ t.due <= now
       /\ LET Done(r) ==
                /\ Commit(r.s)
                /\ timerCmds' = r.tcmds
                /\ last' = LastStep(r.cycle, t.level,
                                     IF r.cycle THEN EvaluateOutcome(FALSE) ELSE NoOutcome)
                /\ cleanSince' = IF ~r.cycle THEN cleanSince
                                 ELSE IF AllCoBelowClear(r.s)
                                 THEN (IF cleanSince = NoTime THEN now ELSE cleanSince)
                                 ELSE NoTime
          IN  Done(TimerCallback(Cur, t))
  /\ UNCHANGED <<cfg, scn, evalPc, phase, startupRecheck>>

\* the custom alert's binary sensor changes (the engine does not listen to it)
BinaryChange ==
  /\ phase = "running"
  /\ "binary" \in scn.knobs
  /\ binaryOn' = ~binaryOn
  /\ Quiet
  /\ UNCHANGED <<now, sens, inWindow, present, aqTimers, phase, startupRecheck>>

\* the clock enters or leaves the time gate's window
WindowChange ==
  /\ phase = "running"
  /\ "window" \in scn.knobs
  /\ inWindow' = ~inWindow
  /\ Quiet
  /\ UNCHANGED <<now, sens, binaryOn, present, aqTimers, phase, startupRecheck>>

\* _handle_change for a presence entity: somebody arrives or the last one leaves
PresenceChange ==
  /\ phase = "running"
  /\ "presence" \in scn.knobs
  /\ Cycle([Cur EXCEPT !.present = ~present])
  /\ UNCHANGED <<phase, startupRecheck>>

\* 30 seconds pass; sleeps that are over wake up first
Tick ==
  /\ now < MaxTime
  /\ phase # "new"
  /\ \A t \in aqTimers : t.st = "sleeping" => now < t.due
  /\ phase = "running" =>
       /\ pauseEnd # NoTime => now < pauseEnd
       /\ startupRecheck # NoTime => now < startupRecheck
  /\ now' = now + 1
  /\ Quiet
  /\ UNCHANGED <<sens, binaryOn, inWindow, present, aqTimers, phase, startupRecheck>>

\* async_stop
Stop ==
  /\ phase = "running"
  /\ phase' = "stopped"
  /\ startupRecheck' = NoTime
  /\ aqTimers' = { IF \E l \in Levels : aqTasks[l] = t.id
                   THEN (IF t.st = "sleeping" THEN [t EXCEPT !.st = "cancelling"]
                         ELSE IF t.st \in SuspendedAt THEN [t EXCEPT !.st = "unwinding"]
                         ELSE t)
                   ELSE t : t \in aqTimers }
  /\ Quiet
  /\ UNCHANGED <<now, sens, binaryOn, inWindow, present>>

\* the event loop unwinds a cancelled task
CancelDelivered ==
  /\ \E t \in aqTimers :
       /\ t.st \in {"cancelling", "unwinding"}
       /\ aqTimers' = aqTimers \ {t}
  /\ Quiet
  /\ UNCHANGED <<now, sens, binaryOn, inWindow, present, phase, startupRecheck>>

Init ==
  /\ scn \in Scenarios
  /\ cfg = scn.cfg
  /\ now = 0
  /\ sens \in [ DOMAIN scn.values -> UNION { scn.values[e] : e \in DOMAIN scn.values } ]
  /\ \A e \in DOMAIN sens : sens[e] \in scn.values[e]
  /\ binaryOn = FALSE
  /\ inWindow \in (IF "window" \in scn.knobs THEN BOOLEAN ELSE {TRUE})
  /\ present \in (IF "presence" \in scn.knobs THEN BOOLEAN ELSE {TRUE})
  /\ bools = [ k \in BoolKeys |-> k = "air_control_enabled" \/ k \in scn.restored ]
  /\ uiTimers = [ k \in RunTimerKeys |-> FALSE ]
  /\ pauseEnd = NoTime
  /\ coEmergencyActive = FALSE
  /\ coBelowSince = NoTime
  /\ aqTasks = [ l \in Levels |-> NoTask ]
  /\ aqTimers = {}
  /\ aqTriggerActive = [ l \in Levels |-> FALSE ]
  /\ lastAlert = [ i \in 1..2 |-> NoTime ]
  /\ runtimeMode = "unset"
  /\ runtimeReason = [ text |-> "unset", notices |-> {} ]
  /\ cmds = {}
  /\ calls = {}
  /\ ran = {}
  /\ lane = "none"
  /\ last = LastStep(FALSE, "", NoOutcome)
  /\ phase = "new"
  /\ startupRecheck = NoTime
  /\ timerCmds = {}
  /\ cleanSince = NoTime
  /\ evalPc = [ i \in 1..MaxEvals |-> "idle" ]
  /\ host = HostInit /\ svc = {} /\ drv = NoDrv
  /\ flashes = {} /\ flashLimited = {} /\ flashedAt = [ i \in 1..2 |-> NoTime ]
  /\ humidifierCmd = [ e \in HumidifierEntities |-> "" ]

Next ==
  \/ Start
  \/ HandleChange
  \/ HandleSwitch
  \/ PeriodicCheck
  \/ StartupRecheck
  \/ PauseControl
  \/ ResumeControl
  \/ PauseFinish
  \/ TimerExpire
  \/ BinaryChange
  \/ WindowChange
  \/ PresenceChange
  \/ Tick
  \/ Stop
  \/ CancelDelivered

Spec == Init /\ [][Next]_vars

\* ------------------------------------- the CO thresholds of any alert list
\* threshold values an alert may carry: missing or malformed, below, inside
\* and above the allowed band
CoThresholds == {NA, 1, 12, 40, 150}

CoAlerts ==
  { Alert(en, tt, th, {"fan.zone1"}) :
      en \in BOOLEAN, tt \in {"co_emergency", "custom_binary"}, th \in CoThresholds }

\* one CO sensor, one zone, and the given alerts
CfgCoAlerts(alerts) ==
  [ telemetry |-> { Tel("sensor.co_val", "co", "level1") },
    alerts |-> alerts,
    zones |-> [ zone1 |-> Zone(TRUE, "level1", {"air_quality_bad"}, 50, {"fan.zone1"}, NA, NA),
                zone2 |-> NoZone ],
    aq |-> [ level1 |-> NoAq, level2 |-> NoAq ],
    humidifiers |-> [ level1 |-> NoHumidifier, level2 |-> NoHumidifier ],
    time_gate |-> TimeGate(FALSE, "unset"),
    presence_gate |-> [enabled |-> FALSE],
    target_low |-> 45, target_high |-> 55 ]

CoScenarios ==
  { [ cfg |-> CfgCoAlerts(alerts),
      values |-> [ e \in {"sensor.co_val"} |-> {8, 11, 14, 45} ],
      knobs |-> {},
      restored |-> {} ] :
    alerts \in {<< >>} \cup { <<a>> : a \in CoAlerts }
                 \cup { <<a, b>> : a \in CoAlerts, b \in CoAlerts } }

InitCo ==
  /\ scn \in CoScenarios
  /\ cfg = scn.cfg
  /\ now = 0
  /\ sens \in [ DOMAIN scn.values -> UNION { scn.values[e] : e \in DOMAIN scn.values } ]
  /\ \A e \in DOMAIN sens : sens[e] \in scn.values[e]
  /\ binaryOn = FALSE /\ inWindow = TRUE /\ present = TRUE
  /\ bools = [ k \in BoolKeys |-> k = "air_control_enabled" ]
  /\ uiTimers = [ k \in RunTimerKeys |-> FALSE ]
  /\ pauseEnd = NoTime
  /\ coEmergencyActive = FALSE
  /\ coBelowSince = NoTime
  /\ aqTasks = [ l \in Levels |-> NoTask ]
  /\ aqTimers = {}
  /\ aqTriggerActive = [ l \in Levels |-> FALSE ]
  /\ lastAlert = [ i \in 1..2 |-> NoTime ]
  /\ runtimeMode = "unset"
  /\ runtimeReason = [ text |-> "unset", notices |-> {} ]
  /\ cmds = {} /\ calls = {} /\ ran = {}
  /\ lane = "none"
  /\ last = LastStep(FALSE, "", NoOutcome)
  /\ phase = "new"
  /\ startupRecheck = NoTime
  /\ timerCmds = {}
  /\ cleanSince = NoTime
  /\ evalPc = [ i \in 1..MaxEvals |-> "idle" ]
  /\ host = HostInit /\ svc = {} /\ drv = NoDrv
  /\ flashes = {} /\ flashLimited = {} /\ flashedAt = [ i \in 1..2 |-> NoTime ]
  /\ humidifierCmd = [ e \in HumidifierEntities |-> "" ]

NextCo ==
  \/ Start
  \/ HandleChange

SpecCo == InitCo /\ [][NextCo]_vars

\* ------------------------------------------ any configured fan level
FanNumbers == {-5, 0, 1, 33, 49, 50, 64, 83, 99, 100, 150}

FanTexts ==
  { <<"a", "u", "t", "o">>, <<" ", "A", "u", "t", "o", " ">>, <<"0", "%">>,
    <<"5", "0">>, <<"6", "4", "%">>, <<"0", ".", "5">>, <<"1", "5", "0">>,
    <<"-", "5">>, <<"x">>, << >>, <<"%">> }

RawLevels == {None} \cup { Num(n) : n \in FanNumbers } \cup { Txt(t) : t \in FanTexts }

\* a zone on bad air (normal level) and on condensation risk (boost level),
\* an AQ level with a one-minute run, and a CO sensor; the zone's normal
\* level and the AQ level are `level`, the zone's boost level is `boost`
CfgLevels(level, boost) ==
  [ telemetry |-> { Tel("sensor.l1_iaq", "iaq", "level1"),
                    TelRoom("sensor.kitchen_h", "humidity", "level1", "kitchen"),
                    TelRoom("sensor.kitchen_t", "temperature", "level1", "kitchen"),
                    Tel("sensor.co_val", "co", "level1") },
    alerts |-> << >>,
    zones |-> [ zone1 |-> [ ZoneRooms(Zone(TRUE, "level1",
                                           {"air_quality_bad", "condensation_risk"},
                                           50, {"fan.zone1"}, NA, NA),
                                      {"kitchen"}, NA, 4, NA)
                            EXCEPT !.output_level = level, !.boost_output_level = boost ],
                zone2 |-> NoZone ],
    aq |-> [ level1 |-> [ AqLevel(TRUE, TRUE, {"iaq_bad"},
                                  [iaq_bad |-> 75, co_warning |-> NA], {"fan.aq1"}, 1, NA)
                          EXCEPT !.output_level = level ],
             level2 |-> NoAq ],
    humidifiers |-> [ level1 |-> NoHumidifier, level2 |-> NoHumidifier ],
    time_gate |-> TimeGate(FALSE, "unset"),
    presence_gate |-> [enabled |-> FALSE],
    target_low |-> 45, target_high |-> 55 ]

LevelScenarios ==
  { [ cfg |-> CfgLevels(level, boost),
      values |-> [ e \in {"sensor.l1_iaq", "sensor.kitchen_h", "sensor.kitchen_t",
                          "sensor.co_val"} |->
                     CASE e = "sensor.l1_iaq" -> {40, 60, 85}
                       [] e = "sensor.kitchen_h" -> {50, 90}
                       [] e = "sensor.kitchen_t" -> {22}
                       [] OTHER -> {4, 20} ],
      knobs |-> {},
      restored |-> {} ] :
    level \in RawLevels, boost \in {None, Num(20), Num(64), Txt(<<"a", "u", "t", "o">>)} }

InitLevels ==
  /\ scn \in LevelScenarios
  /\ cfg = scn.cfg
  /\ now = 0
  /\ sens \in [ DOMAIN scn.values -> UNION { scn.values[e] : e \in DOMAIN scn.values } ]
  /\ \A e \in DOMAIN sens : sens[e] \in scn.values[e]
  /\ binaryOn = FALSE /\ inWindow = TRUE /\ present = TRUE
  /\ bools = [ k \in BoolKeys |-> k = "air_control_enabled" ]
  /\ uiTimers = [ k \in RunTimerKeys |-> FALSE ]
  /\ pauseEnd = NoTime
  /\ coEmergencyActive = FALSE
  /\ coBelowSince = NoTime
  /\ aqTasks = [ l \in Levels |-> NoTask ]
  /\ aqTimers = {}
  /\ aqTriggerActive = [ l \in Levels |-> FALSE ]
  /\ lastAlert = [ i \in 1..2 |-> NoTime ]
  /\ runtimeMode = "unset"
  /\ runtimeReason = [ text |-> "unset", notices |-> {} ]
  /\ cmds = {} /\ calls = {} /\ ran = {}
  /\ lane = "none"
  /\ last = LastStep(FALSE, "", NoOutcome)
  /\ phase = "new"
  /\ startupRecheck = NoTime
  /\ timerCmds = {}
  /\ cleanSince = NoTime
  /\ evalPc = [ i \in 1..MaxEvals |-> "idle" ]
  /\ host = HostInit /\ svc = {} /\ drv = NoDrv
  /\ flashes = {} /\ flashLimited = {} /\ flashedAt = [ i \in 1..2 |-> NoTime ]
  /\ humidifierCmd = [ e \in HumidifierEntities |-> "" ]

NextLevels ==
  \/ Start
  \/ HandleChange
  \/ TimerExpire
  \/ Tick

SpecLevels == InitLevels /\ [][NextLevels]_vars

\* ------------------------------------- the output driver called directly
HostStates ==
  { HostState(st, pc, pr) : st \in {"on", "off", "none"}, pc \in {NA, 33, 66}, pr \in {"", "auto"} }

DriverEntities == {"fan.zone1", "switch.vent", "humidifier.l1"}

CallOutcomes == {"ok", "lost", "raise"}

InitDriver ==
  /\ scn \in { x \in Scenarios : x.cfg = CfgCo }
  /\ cfg = scn.cfg
  /\ now = 0
  /\ sens = [ e \in DOMAIN scn.values |-> NA ]
  /\ binaryOn = FALSE /\ inWindow = TRUE /\ present = TRUE
  /\ bools = [ k \in BoolKeys |-> k = "air_control_enabled" ]
  /\ uiTimers = [ k \in RunTimerKeys |-> FALSE ]
  /\ pauseEnd = NoTime
  /\ coEmergencyActive = FALSE
  /\ coBelowSince = NoTime
  /\ aqTasks = [ l \in Levels |-> NoTask ]
  /\ aqTimers = {}
  /\ aqTriggerActive = [ l \in Levels |-> FALSE ]
  /\ lastAlert = [ i \in 1..2 |-> NoTime ]
  /\ runtimeMode = "unset"
  /\ runtimeReason = [ text |-> "unset", notices |-> {} ]
  /\ cmds = {} /\ calls = {} /\ ran = {}
  /\ lane = "none"
  /\ last = LastStep(FALSE, "", NoOutcome)
  /\ phase = "new"
  /\ startupRecheck = NoTime
  /\ timerCmds = {}
  /\ cleanSince = NoTime
  /\ evalPc = [ i \in 1..MaxEvals |-> "idle" ]
  /\ host \in { [ e \in Entities |->
                    IF e = "fan.zone1" THEN fan
                    ELSE IF e = "switch.vent" THEN HostState(sw, NA, "")
                    ELSE IF e = "humidifier.l1" THEN HostState(hum, NA, "")
                    ELSE HostState("off", NA, "") ] :
                  fan \in HostStates, sw \in {"on", "off", "none"},
                  hum \in {"on", "off", "none"} }
  /\ svc = {} /\ drv = NoDrv
  /\ flashes = {} /\ flashLimited = {} /\ flashedAt = [ i \in 1..2 |-> NoTime ]
  /\ humidifierCmd = [ e \in HumidifierEntities |-> "" ]

\* an operation of the driver is called for one entity
DriverCall(e, target, how) ==
  LET Done(r) ==
        /\ host' = [host EXCEPT ![e] = r.h]
        /\ svc' = r.svc
  IN  /\ Done(DriverOp(host[e], e, target, how))
      /\ drv' = [ e |-> e, target |-> target, how |-> how,
                  repeat |-> drv.e = e /\ drv.target = target /\ drv.how = "ok" ]
      /\ UNCHANGED <<cfg, scn, now, sens, binaryOn, inWindow, present, bools, uiTimers,
                     pauseEnd, coEmergencyActive, coBelowSince, aqTasks, aqTimers,
                     aqTriggerActive, lastAlert, runtimeMode, runtimeReason, cmds, calls,
                     ran, lane, last, phase, startupRecheck, timerCmds, cleanSince, evalPc,
                     flashes, flashLimited, flashedAt, humidifierCmd>>

\* _set_fan_percentage on a fan or a switch
CallSetFanPercentage ==
  \E e \in DriverEntities \cap (FanEntities \cup SwitchEntities) :
    \E level \in {"33", "66"} : \E how \in CallOutcomes : DriverCall(e, level, how)

\* _set_fan_auto on a fan or a switch
CallSetFanAuto ==
  \E e \in DriverEntities \cap (FanEntities \cup SwitchEntities) :
    \E how \in CallOutcomes : DriverCall(e, "auto", how)

\* _set_humidifier_state
CallSetHumidifierState ==
  \E e \in DriverEntities \cap HumidifierEntities :
    \E target \in {"on", "off"} : \E how \in CallOutcomes : DriverCall(e, target, how)

NextDriver ==
  \/ CallSetFanPercentage
  \/ CallSetFanAuto
  \/ CallSetHumidifierState

SpecDriver == InitDriver /\ [][NextDriver]_vars

\* ---------------------------------------------- the engine with a host
\* a zone, an AQ level and a humidifier, each with an output of its own
CfgHost ==
  [ telemetry |-> { Tel("sensor.l1_iaq", "iaq", "level1"),
                    Tel("sensor.hall_h", "humidity", "level1") },
    alerts |-> << >>,
    zones |-> [ zone1 |-> Zone(TRUE, "level1", {"air_quality_bad"}, 50, {"fan.zone1"}, 66, 100),
                zone2 |-> NoZone ],
    aq |-> [ level1 |-> AqLevel(TRUE, TRUE, {"iaq_bad"},
                                [iaq_bad |-> 75, co_warning |-> NA], {"fan.aq1"}, 1, 66),
             level2 |-> NoAq ],
    humidifiers |-> [ level1 |-> Humidifier(TRUE, TRUE, {"humidifier.l1"}, 0, NA),
                      level2 |-> NoHumidifier ],
    time_gate |-> TimeGate(FALSE, "unset"),
    presence_gate |-> [enabled |-> FALSE],
    target_low |-> 45, target_high |-> 55 ]

HostScenario ==
  [ cfg |-> CfgHost,
    values |-> [ e \in {"sensor.l1_iaq", "sensor.hall_h"} |->
                   IF e = "sensor.l1_iaq" THEN {40, 60, 85} ELSE {44, 50} ],
    knobs |-> {"host"},
    restored |-> {} ]

InitHost ==
  /\ scn = HostScenario
  /\ cfg = scn.cfg
  /\ now = 0
  /\ sens \in [ DOMAIN scn.values -> UNION { scn.values[e] : e \in DOMAIN scn.values } ]
  /\ \A e \in DOMAIN sens : sens[e] \in scn.values[e]
  /\ binaryOn = FALSE /\ inWindow = TRUE /\ present = TRUE
  /\ bools = [ k \in BoolKeys |-> k = "air_control_enabled" ]
  /\ uiTimers = [ k \in RunTimerKeys |-> FALSE ]
  /\ pauseEnd = NoTime
  /\ coEmergencyActive = FALSE
  /\ coBelowSince = NoTime
  /\ aqTasks = [ l \in Levels |-> NoTask ]
  /\ aqTimers = {}
  /\ aqTriggerActive = [ l \in Levels |-> FALSE ]
  /\ lastAlert = [ i \in 1..2 |-> NoTime ]
  /\ runtimeMode = "unset"
  /\ runtimeReason = [ text |-> "unset", notices |-> {} ]
  /\ cmds = {} /\ calls = {} /\ ran = {}
  /\ lane = "none"
  /\ last = LastStep(FALSE, "", NoOutcome)
  /\ phase = "new"
  /\ startupRecheck = NoTime
  /\ timerCmds = {}
  /\ cleanSince = NoTime
  /\ evalPc = [ i \in 1..MaxEvals |-> "idle" ]
  /\ host = HostInit /\ svc = {} /\ drv = NoDrv
  /\ flashes = {} /\ flashLimited = {} /\ flashedAt = [ i \in 1..2 |-> NoTime ]
  /\ humidifierCmd = [ e \in HumidifierEntities |-> "" ]

NextHost ==
  \/ Start
  \/ HandleChange
  \/ PeriodicCheck
  \/ TimerExpire
  \/ Tick

SpecHost == InitHost /\ [][NextHost]_vars

\* ------------------------------------------------ cycles that raise
FaultPoints == {"top", "alerts", "lower"}

\* a trigger whose cycle meets an unexpected exception
RaisingCycle ==
  /\ phase = "running"
  /\ \E at \in FaultPoints :
       LET Done(r) ==
             /\ r.raised
             /\ Commit(r.s)
             /\ last' = LastStep(TRUE, "", EvaluateOutcome(r.raised))
       IN  Done(EvaluateRaising([Cur EXCEPT !.cmds = {}, !.calls = {}, !.ran = {}], at))
  /\ timerCmds' = {}
  /\ UNCHANGED <<cfg, scn, evalPc, phase, startupRecheck, cleanSince>>

NextFault == Next \/ RaisingCycle

SpecFault == Init /\ [][NextFault]_vars

\* ------------------------------------------- evaluation at await granularity
\* _evaluate awaits between its lanes (every host write is awaited) and holds
\* no lock; _handle_change, _periodic_check and async_request_evaluate each
\* start it as a task of their own.  Here an evaluation advances one lane
\* group per step, and the event loop may run a step of any evaluation that
\* has been started.
Evals == 1..MaxEvals

AsyncCommit(s, i, pc) ==
  /\ Commit(s)
  /\ evalPc' = [evalPc EXCEPT ![i] = pc]
  /\ UNCHANGED <<cfg, scn, last, startupRecheck, timerCmds, cleanSince>>

\* the slot of the next evaluation task
FreeEval(i) ==
  /\ evalPc[i] = "idle"
  /\ \A j \in Evals : j < i => evalPc[j] # "idle"

\* async_start: subscribe and enter the first evaluation
AsyncStart ==
  /\ phase = "new"
  /\ phase' = "running"
  /\ AsyncCommit(Cur, 1, "top")

\* _handle_change for a telemetry sensor: a task running _evaluate is created
AsyncHandleChange ==
  \E i \in Evals : \E e \in DOMAIN sens : \E v \in scn.values[e] \ {sens[e]} :
    /\ phase = "running"
    /\ FreeEval(i)
    /\ AsyncCommit([Cur EXCEPT !.sens[e] = v], i, "top")
    /\ UNCHANGED phase

\* _periodic_check: a task running _evaluate is created
AsyncPeriodicCheck ==
  \E i \in Evals :
    /\ phase = "running"
    /\ FreeEval(i)
    /\ AsyncCommit(Cur, i, "top")
    /\ UNCHANGED phase

\* the custom alert's binary sensor changes
AsyncBinaryChange ==
  /\ phase = "running"
  /\ "binary" \in scn.knobs
  /\ binaryOn' = ~binaryOn
  /\ UNCHANGED <<cfg, scn, now, sens, inWindow, present, bools, uiTimers, pauseEnd,
                 coEmergencyActive, coBelowSince, aqTasks, aqTimers, aqTriggerActive,
                 lastAlert, runtimeMode, runtimeReason, cmds, calls, ran, lane, last,
                 phase, startupRecheck, timerCmds, cleanSince, evalPc, host, svc, drv,
                 flashedAt, humidifierCmd>>
  /\ flashes' = {} /\ flashLimited' = {}

\* _evaluate up to the await that ends the CO lane
AsyncEvalTop ==
  \E i \in Evals :
    /\ evalPc[i] = "top"
    /\ LET r == EvalTop([Cur EXCEPT !.cmds = {}, !.calls = {}, !.ran = {}])
       IN  AsyncCommit(r.s, i, IF r.done THEN "idle" ELSE "alerts")
    /\ UNCHANGED phase

\* _evaluate, the alert lane
AsyncEvalAlerts ==
  \E i \in Evals :
    /\ evalPc[i] = "alerts"
    /\ LET r == EvalAlerts(Cur)
       IN  AsyncCommit(r.s, i, IF r.done THEN "idle" ELSE "lower")
    /\ UNCHANGED phase

\* _evaluate, the lower lanes to the end
AsyncEvalLower ==
  \E i \in Evals :
    /\ evalPc[i] = "lower"
    /\ AsyncCommit(EvalLower(Cur), i, "idle")
    /\ UNCHANGED phase

\* async_stop while evaluation tasks may be suspended at an await: the
\* subscriptions are removed and the timer tasks the dict holds are cancelled;
\* an evaluation task that is already running is not touched
AsyncStop ==
  /\ phase = "running"
  /\ phase' = "stopped"
  /\ startupRecheck' = NoTime
  /\ aqTimers' = { IF \E l \in Levels : aqTasks[l] = t.id
                   THEN [t EXCEPT !.st = "cancelling"] ELSE t : t \in aqTimers }
  /\ UNCHANGED <<cfg, scn, now, sens, binaryOn, inWindow, present, bools, uiTimers, pauseEnd,
                 coEmergencyActive, coBelowSince, aqTasks, aqTriggerActive,
                 lastAlert, runtimeMode, runtimeReason, cmds, calls, ran, lane, last,
                 timerCmds, cleanSince, evalPc, host, svc, drv,
                 flashedAt, humidifierCmd>>
  /\ flashes' = {} /\ flashLimited' = {}

\* the event loop unwinds a cancelled timer task
AsyncCancelDelivered ==
  /\ \E t \in aqTimers :
       /\ t.st = "cancelling"
       /\ aqTimers' = aqTimers \ {t}
  /\ UNCHANGED <<cfg, scn, now, sens, binaryOn, inWindow, present, bools, uiTimers, pauseEnd,
                 coEmergencyActive, coBelowSince, aqTasks, aqTriggerActive,
                 lastAlert, runtimeMode, runtimeReason, cmds, calls, ran, lane, last,
                 phase, startupRecheck, timerCmds, cleanSince, evalPc, host, svc, drv,
                 flashedAt, humidifierCmd>>
  /\ flashes' = {} /\ flashLimited' = {}

InitAsync == Init /\ scn.cfg = CfgAlert

NextAsync ==
  \/ AsyncStart
  \/ AsyncHandleChange
  \/ AsyncPeriodicCheck
  \/ AsyncBinaryChange
  \/ AsyncEvalTop
  \/ AsyncEvalAlerts
  \/ AsyncEvalLower
  \/ AsyncStop
  \/ AsyncCancelDelivered

SpecAsync == InitAsync /\ [][NextAsync]_vars

\* ---------------------------------------------- alert flashes, interleaved
\* two alerts that watch the same binary sensor; no zone, AQ level or humidifier
CfgFlash ==
  [ telemetry |-> { Tel("sensor.hall_h", "humidity", "level1") },
    alerts |-> << Alert(TRUE, "custom_binary", NA, {}), Alert(TRUE, "custom_binary", NA, {}) >>,
    zones |-> [ zone1 |-> NoZone, zone2 |-> NoZone ],
    aq |-> [ level1 |-> NoAq, level2 |-> NoAq ],
    humidifiers |-> [ level1 |-> NoHumidifier, level2 |-> NoHumidifier ],
    time_gate |-> TimeGate(FALSE, "unset"),
    presence_gate |-> [enabled |-> FALSE],
    target_low |-> 45, target_high |-> 55 ]

FlashScenario ==
  [ cfg |-> CfgFlash,
    values |-> [ e \in {"sensor.hall_h"} |-> {44, 50} ],
    knobs |-> {"binary"},
    restored |-> {} ]

InitFlash ==
  /\ scn = FlashScenario
  /\ cfg = scn.cfg
  /\ now = 0
  /\ sens \in [ DOMAIN scn.values -> UNION { scn.values[e] : e \in DOMAIN scn.values } ]
  /\ \A e \in DOMAIN sens : sens[e] \in scn.values[e]
  /\ binaryOn = FALSE /\ inWindow = TRUE /\ present = TRUE
  /\ bools = [ k \in BoolKeys |-> k = "air_control_enabled" ]
  /\ uiTimers = [ k \in RunTimerKeys |-> FALSE ]
  /\ pauseEnd = NoTime
  /\ coEmergencyActive = FALSE
  /\ coBelowSince = NoTime
  /\ aqTasks = [ l \in Levels |-> NoTask ]
  /\ aqTimers = {}
  /\ aqTriggerActive = [ l \in Levels |-> FALSE ]
  /\ lastAlert = [ i \in 1..2 |-> NoTime ]
  /\ runtimeMode = "unset"
  /\ runtimeReason = [ text |-> "unset", notices |-> {} ]
  /\ cmds = {} /\ calls = {} /\ ran = {}
  /\ lane = "none"
  /\ last = LastStep(FALSE, "", NoOutcome)
  /\ phase = "new"
  /\ startupRecheck = NoTime
  /\ timerCmds = {}
  /\ cleanSince = NoTime
  /\ evalPc = [ i \in 1..MaxEvals |-> "idle" ]
  /\ host = HostInit /\ svc = {} /\ drv = NoDrv
  /\ flashes = {} /\ flashLimited = {} /\ flashedAt = [ i \in 1..2 |-> NoTime ]
  /\ humidifierCmd = [ e \in HumidifierEntities |-> "" ]

\* the interleaved evaluation tasks with the clock running
NextFlash ==
  \/ AsyncStart
  \/ AsyncHandleChange
  \/ AsyncPeriodicCheck
  \/ AsyncBinaryChange
  \/ AsyncEvalTop
  \/ AsyncEvalAlerts
  \/ AsyncEvalLower
  \/ AsyncStop
  \/ Tick

SpecFlash == InitFlash /\ [][NextFlash]_vars

\* ------------------------------------- the timer callback, step by step
\* the sleep of a run timer ends and the callback runs up to its output
\* commands, where the host's service call suspends it
TimerSuspend ==
  /\ \E t \in aqTimers :
       /\ t.st = "sleeping" /\ t.due <= now
       /\ LET Done(s) ==
                /\ s.calls # {}
                /\ Commit([s EXCEPT !.cmds = cmds, !.ran = ran])
                /\ timerCmds' = s.cmds
          IN  Done(TimerWake(Cur, t))
       /\ last' = LastStep(FALSE, t.level, NoOutcome)
  /\ UNCHANGED <<cfg, scn, evalPc, phase, startupRecheck, cleanSince>>

\* the host resumes a suspended callback, which runs to its end
TimerResume ==
  /\ \E t \in aqTimers :
       /\ t.st \in SuspendedAt
       /\ LET Done(r) ==
                /\ Commit(r.s)
                /\ last' = LastStep(r.cycle, t.level,
                                     IF r.cycle THEN EvaluateOutcome(FALSE) ELSE NoOutcome)
                /\ cleanSince' = IF ~r.cycle THEN cleanSince
                                 ELSE IF AllCoBelowClear(r.s)
                                 THEN (IF cleanSince = NoTime THEN now ELSE cleanSince)
                                 ELSE NoTime
          IN  Done(TimerResumed(Cur, t))
       /\ timerCmds' = {}
  /\ UNCHANGED <<cfg, scn, evalPc, phase, startupRecheck>>

\* one AQ level with a one-minute run, a zone on the same reading and an alert
TimerScenario ==
  [ cfg |-> CfgAlert,
    values |-> [ e \in {"sensor.l1_iaq", "sensor.hall_h"} |->
                   IF e = "sensor.l1_iaq" THEN {60, 85} ELSE {50} ],
    knobs |-> {"binary"},
    restored |-> {} ]

InitTimer ==
  /\ scn = TimerScenario
  /\ cfg = scn.cfg
  /\ now = 0
  /\ sens \in [ DOMAIN scn.values -> UNION { scn.values[e] : e \in DOMAIN scn.values } ]
  /\ \A e \in DOMAIN sens : sens[e] \in scn.values[e]
  /\ binaryOn = FALSE /\ inWindow = TRUE /\ present = TRUE
  /\ bools = [ k \in BoolKeys |-> k = "air_control_enabled" ]
  /\ uiTimers = [ k \in RunTimerKeys |-> FALSE ]
  /\ pauseEnd = NoTime
  /\ coEmergencyActive = FALSE
  /\ coBelowSince = NoTime
  /\ aqTasks = [ l \in Levels |-> NoTask ]
  /\ aqTimers = {}
  /\ aqTriggerActive = [ l \in Levels |-> FALSE ]
  /\ lastAlert = [ i \in 1..2 |-> NoTime ]
  /\ runtimeMode = "unset"
  /\ runtimeReason = [ text |-> "unset", notices |-> {} ]
  /\ cmds = {} /\ calls = {} /\ ran = {}
  /\ lane = "none"
  /\ last = LastStep(FALSE, "", NoOutcome)
  /\ phase = "new"
  /\ startupRecheck = NoTime
  /\ timerCmds = {}
  /\ cleanSince = NoTime
  /\ evalPc = [ i \in 1..MaxEvals |-> "idle" ]
  /\ host = HostInit /\ svc = {} /\ drv = NoDrv
  /\ flashes = {} /\ flashLimited = {} /\ flashedAt = [ i \in 1..2 |-> NoTime ]
  /\ humidifierCmd = [ e \in HumidifierEntities |-> "" ]

NextTimer ==
  \/ Start
  \/ HandleChange
  \/ PeriodicCheck
  \/ StartupRecheck
  \/ BinaryChange
  \/ TimerExpire
  \/ TimerSuspend
  \/ TimerResume
  \/ Tick
  \/ Stop
  \/ CancelDelivered

SpecTimer == InitTimer /\ [][NextTimer]_vars

\* ------------------------------------------- sensors without a usable state
\* Every lane on level 1 with every kind of trigger that reads telemetry: a
\* zone on all four triggers, an AQ level on bad air, a humidifier, a
\* humidity_danger alert and a co_emergency alert.
CfgRead ==
  [ telemetry |-> { Tel("sensor.l1_iaq", "iaq", "level1"),
                    TelRoom("sensor.kitchen_h", "humidity", "level1", "kitchen"),
                    TelRoom("sensor.kitchen_t", "temperature", "level1", "kitchen"),
                    Tel("sensor.hall_h", "humidity", "level1"),
                    Tel("sensor.co_val", "co", "level1") },
    alerts |-> << Alert(TRUE, "humidity_danger", 75, {}),
                  Alert(TRUE, "co_emergency", 15, {"fan.zone1"}) >>,
    zones |-> [ zone1 |-> ZoneRooms(Zone(TRUE, "level1",
                                         {"humidity_high", "air_quality_bad",
                                          "condensation_risk", "mould_risk"},
                                         50, {"fan.zone1"}, 66, 100),
                                    {"kitchen"}, 5, 4, 1),
                zone2 |-> NoZone ],
    aq |-> [ level1 |-> AqLevel(TRUE, TRUE, {"iaq_bad"},
                                [iaq_bad |-> 75, co_warning |-> NA], {"fan.aq1"}, 1, 66),
             level2 |-> NoAq ],
    humidifiers |-> [ level1 |-> Humidifier(TRUE, TRUE, {"humidifier.l1"}, 0, NA),
                      level2 |-> NoHumidifier ],
    time_gate |-> TimeGate(FALSE, "unset"),
    presence_gate |-> [enabled |-> FALSE],
    target_low |-> 45, target_high |-> 55 ]

\* each sensor has a reading that makes its lanes fire and one or two of the
\* states that give no reading
ReadScenario ==
  [ cfg |-> CfgRead,
    values |-> [ e \in {"sensor.l1_iaq", "sensor.kitchen_h", "sensor.kitchen_t",
                        "sensor.hall_h", "sensor.co_val"} |->
                   CASE e = "sensor.l1_iaq" -> {STATE_TEXT, 40, 60}
                     [] e = "sensor.kitchen_h" -> {STATE_UNAVAILABLE, 90}
                     [] e = "sensor.kitchen_t" -> {STATE_UNKNOWN, 22}
                     [] e = "sensor.hall_h" -> {NA, 40}
                     [] OTHER -> {STATE_UNAVAILABLE, STATE_TEXT, 20} ],
    knobs |-> {},
    restored |-> {} ]

InitRead ==
  /\ scn = ReadScenario
  /\ cfg = scn.cfg
  /\ now = 0
  /\ sens \in [ DOMAIN scn.values -> UNION { scn.values[e] : e \in DOMAIN scn.values } ]
  /\ \A e \in DOMAIN sens : sens[e] \in scn.values[e]
  /\ binaryOn = FALSE /\ inWindow = TRUE /\ present = TRUE
  /\ bools = [ k \in BoolKeys |-> k = "air_control_enabled" ]
  /\ uiTimers = [ k \in RunTimerKeys |-> FALSE ]
  /\ pauseEnd = NoTime
  /\ coEmergencyActive = FALSE
  /\ coBelowSince = NoTime
  /\ aqTasks = [ l \in Levels |-> NoTask ]
  /\ aqTimers = {}
  /\ aqTriggerActive = [ l \in Levels |-> FALSE ]
  /\ lastAlert = [ i \in 1..2 |-> NoTime ]
  /\ runtimeMode = "unset"
  /\ runtimeReason = [ text |-> "unset", notices |-> {} ]
  /\ cmds = {} /\ calls = {} /\ ran = {}
  /\ lane = "none"
  /\ last = LastStep(FALSE, "", NoOutcome)
  /\ phase = "new"
  /\ startupRecheck = NoTime
  /\ timerCmds = {}
  /\ cleanSince = NoTime
  /\ evalPc = [ i \in 1..MaxEvals |-> "idle" ]
  /\ host = HostInit /\ svc = {} /\ drv = NoDrv
  /\ flashes = {} /\ flashLimited = {} /\ flashedAt = [ i \in 1..2 |-> NoTime ]
  /\ humidifierCmd = [ e \in HumidifierEntities |-> "" ]

NextRead ==
  \/ Start
  \/ HandleChange
  \/ PeriodicCheck
  \/ TimerExpire
  \/ Tick

SpecRead == InitRead /\ [][NextRead]_vars

\* ------------------------------------------------ the humidifier target band
\* A humidifier on level 1 and nothing else; the seasonal targets are those of
\* _target_low / _target_high (Nov-Mar, Jun-Aug, the other months).
SeasonalTargets == { <<45, 55>>, <<51, 60>>, <<47, 58>> }

BandAdjusts == {-5, -3, 0, 2, 3, 5}

RecoveriesInBand == {NA, 0, 1, 3, 8, 12}

CfgBand(band_adjust, recovery_in_band, targets) ==
  [ telemetry |-> { Tel("sensor.hall_h", "humidity", "level1") },
    alerts |-> << >>,
    zones |-> [ zone1 |-> NoZone, zone2 |-> NoZone ],
    aq |-> [ level1 |-> NoAq, level2 |-> NoAq ],
    humidifiers |-> [ level1 |-> Humidifier(TRUE, TRUE, {"humidifier.l1"},
                                            band_adjust, recovery_in_band),
                      level2 |-> NoHumidifier ],
    time_gate |-> TimeGate(FALSE, "unset"),
    presence_gate |-> [enabled |-> FALSE],
    target_low |-> targets[1], target_high |-> targets[2] ]

BandScenarios ==
  { [ cfg |-> CfgBand(band_adjust, recovery_in_band, targets),
      values |-> [ e \in {"sensor.hall_h"} |-> {41, 46, 49, 52, 57, 64} ],
      knobs |-> {},
      restored |-> {} ] :
    band_adjust \in BandAdjusts, recovery_in_band \in RecoveriesInBand,
    targets \in SeasonalTargets }

InitBand ==
  /\ scn \in BandScenarios
  /\ cfg = scn.cfg
  /\ now = 0
  /\ sens \in [ DOMAIN scn.values -> UNION { scn.values[e] : e \in DOMAIN scn.values } ]
  /\ \A e \in DOMAIN sens : sens[e] \in scn.values[e]
  /\ binaryOn = FALSE /\ inWindow = TRUE /\ present = TRUE
  /\ bools = [ k \in BoolKeys |-> k = "air_control_enabled" ]
  /\ uiTimers = [ k \in RunTimerKeys |-> FALSE ]
  /\ pauseEnd = NoTime
  /\ coEmergencyActive = FALSE
  /\ coBelowSince = NoTime
  /\ aqTasks = [ l \in Levels |-> NoTask ]
  /\ aqTimers = {}
  /\ aqTriggerActive = [ l \in Levels |-> FALSE ]
  /\ lastAlert = [ i \in 1..2 |-> NoTime ]
  /\ runtimeMode = "unset"
  /\ runtimeReason = [ text |-> "unset", notices |-> {} ]
  /\ cmds = {} /\ calls = {} /\ ran = {}
  /\ lane = "none"
  /\ last = LastStep(FALSE, "", NoOutcome)
  /\ phase = "new"
  /\ startupRecheck = NoTime
  /\ timerCmds = {}
  /\ cleanSince = NoTime
  /\ evalPc = [ i \in 1..MaxEvals |-> "idle" ]
  /\ host = HostInit /\ svc = {} /\ drv = NoDrv
  /\ flashes = {} /\ flashLimited = {} /\ flashedAt = [ i \in 1..2 |-> NoTime ]
  /\ humidifierCmd = [ e \in HumidifierEntities |-> "" ]

NextBand ==
  \/ Start
  \/ HandleChange
  \/ PeriodicCheck
  \/ Tick

SpecBand == InitBand /\ [][NextBand]_vars

\* --------------------------------------- the commands a humidifier receives
\* The installation of the regression tests with a humidity sensor that can
\* go missing and the control switch; isolation stays off.
HumidifierScenario ==
  [ cfg |-> CfgAlert,
    values |-> [ e \in {"sensor.l1_iaq", "sensor.hall_h"} |->
                   IF e = "sensor.l1_iaq" THEN {85} ELSE {NA, 44, 47, 50} ],
    knobs |-> {"binary", "air_control_enabled", "humidifier_log"},
    restored |-> {} ]

InitHumidifier ==
  /\ scn = HumidifierScenario
  /\ cfg = scn.cfg
  /\ now = 0
  /\ sens \in [ DOMAIN scn.values -> UNION { scn.values[e] : e \in DOMAIN scn.values } ]
  /\ \A e \in DOMAIN sens : sens[e] \in scn.values[e]
  /\ binaryOn = FALSE /\ inWindow = TRUE /\ present = TRUE
  /\ bools = [ k \in BoolKeys |-> k = "air_control_enabled" ]
  /\ uiTimers = [ k \in RunTimerKeys |-> FALSE ]
  /\ pauseEnd = NoTime
  /\ coEmergencyActive = FALSE
  /\ coBelowSince = NoTime
  /\ aqTasks = [ l \in Levels |-> NoTask ]
  /\ aqTimers = {}
  /\ aqTriggerActive = [ l \in Levels |-> FALSE ]
  /\ lastAlert = [ i \in 1..2 |-> NoTime ]
  /\ runtimeMode = "unset"
  /\ runtimeReason = [ text |-> "unset", notices |-> {} ]
  /\ cmds = {} /\ calls = {} /\ ran = {}
  /\ lane = "none"
  /\ last = LastStep(FALSE, "", NoOutcome)
  /\ phase = "new"
  /\ startupRecheck = NoTime
  /\ timerCmds = {}
  /\ cleanSince = NoTime
  /\ evalPc = [ i \in 1..MaxEvals |-> "idle" ]
  /\ host = HostInit /\ svc = {} /\ drv = NoDrv
  /\ flashes = {} /\ flashLimited = {} /\ flashedAt = [ i \in 1..2 |-> NoTime ]
  /\ humidifierCmd = [ e \in HumidifierEntities |-> "" ]

NextHumidifier ==
  \/ Start
  \/ HandleChange
  \/ PeriodicCheck
  \/ BinaryChange
  \/ HandleSwitch
  \/ Tick

SpecHumidifier == InitHumidifier /\ [][NextHumidifier]_vars

\* ------------------------------------------- a gate that pauses automations
\* The gated installation with outside_action "pause" (OUTSIDE_WINDOW_ACTIONS):
\* the clock enters and leaves the window, the residents come and go.
GateScenario ==
  [ cfg |-> CfgGate("pause"),
    values |-> [ e \in {"sensor.l1_iaq"} |-> {60, 85} ],
    knobs |-> {"window", "presence"},
    restored |-> {} ]

InitGate ==
  /\ scn = GateScenario
  /\ cfg = scn.cfg
  /\ now = 0
  /\ sens \in [ DOMAIN scn.values -> UNION { scn.values[e] : e \in DOMAIN scn.values } ]
  /\ \A e \in DOMAIN sens : sens[e] \in scn.values[e]
  /\ binaryOn = FALSE /\ inWindow = TRUE /\ present = TRUE
  /\ bools = [ k \in BoolKeys |-> k = "air_control_enabled" ]
  /\ uiTimers = [ k \in RunTimerKeys |-> FALSE ]
  /\ pauseEnd = NoTime
  /\ coEmergencyActive = FALSE
  /\ coBelowSince = NoTime
  /\ aqTasks = [ l \in Levels |-> NoTask ]
  /\ aqTimers = {}
  /\ aqTriggerActive = [ l \in Levels |-> FALSE ]
  /\ lastAlert = [ i \in 1..2 |-> NoTime ]
  /\ runtimeMode = "unset"
  /\ runtimeReason = [ text |-> "unset", notices |-> {} ]
  /\ cmds = {} /\ calls = {} /\ ran = {}
  /\ lane = "none"
  /\ last = LastStep(FALSE, "", NoOutcome)
  /\ phase = "new"
  /\ startupRecheck = NoTime
  /\ timerCmds = {}
  /\ cleanSince = NoTime
  /\ evalPc = [ i \in 1..MaxEvals |-> "idle" ]
  /\ host = HostInit /\ svc = {} /\ drv = NoDrv
  /\ flashes = {} /\ flashLimited = {} /\ flashedAt = [ i \in 1..2 |-> NoTime ]
  /\ humidifierCmd = [ e \in HumidifierEntities |-> "" ]

NextGate ==
  \/ Start
  \/ HandleChange
  \/ PeriodicCheck
  \/ TimerExpire
  \/ WindowChange
  \/ PresenceChange
  \/ Tick

SpecGate == InitGate /\ [][NextGate]_vars

\* ------------------------------------------------ runs that come to an end
\* The two-level AQ installation and the gated one, with an engine that is
\* never stopped: the periodic check keeps coming and every sleep ends.
LiveScenarios == { x \in Scenarios : x.cfg = CfgAq } \cup {GateScenario}

InitLive ==
  /\ scn \in LiveScenarios
  /\ cfg = scn.cfg
  /\ now = 0
  /\ sens \in [ DOMAIN scn.values -> UNION { scn.values[e] : e \in DOMAIN scn.values } ]
  /\ \A e \in DOMAIN sens : sens[e] \in scn.values[e]
  /\ binaryOn = FALSE
  /\ inWindow \in (IF "window" \in scn.knobs THEN BOOLEAN ELSE {TRUE})
  /\ present \in (IF "presence" \in scn.knobs THEN BOOLEAN ELSE {TRUE})
  /\ bools = [ k \in BoolKeys |-> k = "air_control_enabled" \/ k \in scn.restored ]
  /\ uiTimers = [ k \in RunTimerKeys |-> FALSE ]
  /\ pauseEnd = NoTime
  /\ coEmergencyActive = FALSE
  /\ coBelowSince = NoTime
  /\ aqTasks = [ l \in Levels |-> NoTask ]
  /\ aqTimers = {}
  /\ aqTriggerActive = [ l \in Levels |-> FALSE ]
  /\ lastAlert = [ i \in 1..2 |-> NoTime ]
  /\ runtimeMode = "unset"
  /\ runtimeReason = [ text |-> "unset", notices |-> {} ]
  /\ cmds = {}
  /\ calls = {}
  /\ ran = {}
  /\ lane = "none"
  /\ last = LastStep(FALSE, "", NoOutcome)
  /\ phase = "new"
  /\ startupRecheck = NoTime
  /\ timerCmds = {}
  /\ cleanSince = NoTime
  /\ evalPc = [ i \in 1..MaxEvals |-> "idle" ]
  /\ host = HostInit /\ svc = {} /\ drv = NoDrv
  /\ flashes = {} /\ flashLimited = {} /\ flashedAt = [ i \in 1..2 |-> NoTime ]
  /\ humidifierCmd = [ e \in HumidifierEntities |-> "" ]

\* asyncio.sleep ends after the last tick the clock counts as well: time
\* passes for every sleeping run timer until the one due first is due
Elapse ==
  /\ now = MaxTime
  /\ \E t \in aqTimers :
       /\ t.st = "sleeping" /\ t.due > now
       /\ \A x \in aqTimers : x.st = "sleeping" => t.due <= x.due
       /\ aqTimers' = { IF x.st = "sleeping" THEN [x EXCEPT !.due = @ - (t.due - now)]
                        ELSE x : x \in aqTimers }
  /\ Quiet
  /\ UNCHANGED <<now, sens, binaryOn, inWindow, present, phase, startupRecheck>>

\* a run timer of the level has slept its time and was not yet resumed
TimerDue(level) ==
  \E t \in aqTimers : t.level = level /\ t.st = "sleeping" /\ t.due <= now

\* the startup recheck has slept its time and was not yet resumed
RecheckDue == startupRecheck # NoTime /\ startupRecheck <= now

\* the engine was started and the step before was an evaluation cycle of its
\* own, not the one a timer callback ends with
CycleRan == phase = "running" /\ last.cycle /\ last.timer = ""

NextLive ==
  \/ Start
  \/ HandleChange
  \/ PeriodicCheck
  \/ StartupRecheck
  \/ TimerExpire
  \/ WindowChange
  \/ PresenceChange
  \/ Tick
  \/ Elapse

\* The clock keeps running (WF on Tick and Elapse).  async_track_time_interval
\* keeps calling _periodic_check: again and again a cycle has just run.  The
\* event loop resumes every task whose sleep is over: no run timer stays due
\* for ever, and neither does the startup recheck.  These follow from weak
\* fairness of Start, PeriodicCheck, StartupRecheck and of TimerExpire for each
\* level, and are stated on the states they lead to.
SpecLive ==
  /\ InitLive /\ [][NextLive]_vars
  /\ WF_vars(Tick) /\ WF_vars(Elapse)
  /\ []<>CycleRan
  /\ []<>~RecheckDue
  /\ \A l \in Levels : []<>~TimerDue(l)

\* ------------------------------------------------------------- properties
\* What the last cycle saw, read off the state it left behind (a cycle does
\* not change readings, gate inputs, the pause timer or the control switches).
CoHigh == \E v \in CollectValues(Cur, "co") : v >= CoEmergencySettings.start

GateAction ==
  IF cfg.time_gate.outside_action = "unset" THEN "safe_state"
  ELSE cfg.time_gate.outside_action

LanesOpen == ControlLockReason(Cur) = "" /\ GateStatus(Cur) /\ ~PauseActive(Cur)

GateHolds == ControlLockReason(Cur) = "" /\ ~GateStatus(Cur) /\ GateAction # "safe_state"

AnyAlertTriggered ==
  \E i \in DOMAIN cfg.alerts : cfg.alerts[i].enabled /\ AlertTriggered(Cur, cfg.alerts[i])

LiveTimers(level) == { t \in aqTimers : t.level = level /\ t.st = "sleeping" }

AqFlagsOff == \A l \in Levels : ~bools[AqActiveKey(l)]
HumidifierFlagsOff == \A l \in Levels : ~bools[HumidifierActiveKey(l)]
AlertFlagsOff == \A i \in 1..2 : ~bools[AlertSwitchKey(i)]
NoLiveTimers == \A l \in Levels : LiveTimers(l) = {}

Commanded(outputs, target) == \A e \in outputs : <<e, target>> \in cmds

\* selected CO outputs at 100% and nothing else, every other known output auto
CoOutputsForced ==
  /\ Commanded(CoEmergencySettings.outputs, "100")
  /\ Commanded(AllFanOutputs \ CoEmergencySettings.outputs, "auto")
  /\ \A c \in cmds : c[1] \in CoEmergencySettings.outputs => c[2] = "100"

\* C1, as stated: every cycle in which a CO sensor reads at or above the
\* effective start threshold ends in mode co_emergency with the selected CO
\* outputs commanded to 100% and every other known output commanded to auto.
C1_EveryCycle ==
  (last.cycle /\ CoHigh) => (runtimeMode = "co_emergency" /\ CoOutputsForced)

\* C1, amended: every cycle that passes the control lock, the global gate and
\* the pause lane, and in which a CO sensor reads at or above the effective
\* start threshold, ends in mode co_emergency with the selected CO outputs
\* commanded to 100% and every other known output commanded to auto.
C1_CoEmergencyForced ==
  (last.cycle /\ LanesOpen /\ CoHigh) =>
    (runtimeMode = "co_emergency" /\ coEmergencyActive /\ CoOutputsForced)

C1_Witness ==
  /\ last.cycle /\ LanesOpen /\ CoHigh
  /\ runtimeMode = "co_emergency"
  /\ CoEmergencySettings.outputs # AllFanOutputs
  /\ Commanded({"fan.zone1"}, "100") /\ Commanded({"fan.aq1"}, "auto")

\* C2: once the latch is active, a cycle that reaches the CO lane after every
\* CO sensor has read below the clear threshold in every cycle for two
\* minutes or more leaves the latch cleared.
C2_LatchClears ==
  (last.cycle /\ LanesOpen /\ cleanSince # NoTime /\ now - cleanSince >= CO_CLEAR_HOLD)
    => ~coEmergencyActive

\* C3: the latch is never cleared unless every CO sensor has read below the
\* clear threshold for the preceding two minutes or more, and a cycle that
\* sees a reading at or above the clear threshold leaves below-since reset.
C3_NoEarlyClear ==
  [][ /\ (coEmergencyActive /\ ~coEmergencyActive') =>
           (cleanSince # NoTime /\ cleanSince' # NoTime
            /\ now' - cleanSince >= CO_CLEAR_HOLD)
      /\ (last'.cycle /\ LanesOpen' /\ ~AllCoBelowClear(Cur')) => coBelowSince' = NoTime
    ]_vars

C3_Witness ==
  /\ last.cycle /\ LanesOpen /\ coEmergencyActive
  /\ cleanSince # NoTime /\ now - cleanSince < CO_CLEAR_HOLD /\ now > cleanSince

\* C4: a cycle in which the CO lane is triggered or latched runs no alert,
\* humidifier, zone or AQ handler, and leaves the AQ timers cancelled, the AQ,
\* humidifier and alert flags off and the humidifier outputs commanded off.
C4_CoPreempts ==
  (last.cycle /\ LanesOpen /\ (CoHigh \/ coEmergencyActive)) =>
    /\ ran = {}
    /\ NoLiveTimers /\ \A l \in Levels : aqTasks[l] = NoTask
    /\ AqFlagsOff /\ HumidifierFlagsOff /\ AlertFlagsOff
    /\ Commanded(UNION { cfg.humidifiers[l].outputs : l \in Levels }, "off")
    /\ \A c \in cmds : c[2] # "on"

C4_Witness ==
  /\ last.cycle /\ LanesOpen /\ coEmergencyActive /\ ~CoHigh
  /\ ran = {} /\ Commanded({"humidifier.l1"}, "off")
  /\ AnyAlertTriggered

\* C5: a cycle in which an enabled alert is triggered and no higher lane
\* matched ends in mode alert, runs no humidifier, zone or AQ handler,
\* commands no zone or AQ output to a run level and turns no humidifier on,
\* and leaves the AQ timers cancelled and the humidifier flags off.
C5_AlertPreempts ==
  (last.cycle /\ LanesOpen /\ ~CoHigh /\ ~coEmergencyActive /\ AnyAlertTriggered) =>
    /\ runtimeMode = "alert"
    /\ ran = {"alerts"}
    /\ \A c \in cmds : c[2] \in {"auto", "off"}
    /\ NoLiveTimers /\ \A l \in Levels : aqTasks[l] = NoTask
    /\ AqFlagsOff /\ HumidifierFlagsOff

C5_Witness ==
  /\ last.cycle /\ LanesOpen /\ ~coEmergencyActive /\ AnyAlertTriggered
  /\ runtimeMode = "alert" /\ bools["air_alert_1_active"]
  /\ AqTriggered(Cur, "level1")
  /\ Commanded({"fan.aq1"}, "auto") /\ Commanded({"humidifier.l1"}, "off")

\* C6: at most one execution of the evaluation routine is in progress per
\* engine: a second evaluation never starts or advances between the steps of
\* one that has not finished.
C6_SingleFlight == Cardinality({ i \in Evals : evalPc[i] # "idle" }) <= 1

\* C7: each AQ level has at most one live run timer (scheduled, not cancelled,
\* not finished), whatever the interleaving of cycles, expiries and stop.
C7_OneLiveTimer == \A l \in Levels : Cardinality(LiveTimers(l)) <= 1

C7_Witness ==
  /\ \A l \in Levels : Cardinality(LiveTimers(l)) = 1
  /\ last.cycle /\ now > 0
  /\ \E l \in Levels : \E t \in LiveTimers(l) : t.due = now + AqDuration(l)

\* the flag of a level mirrors its live timer; a level that is missing,
\* disabled or without outputs has neither
AqFlagsMirrorTimers ==
  \A l \in Levels :
    /\ bools[AqActiveKey(l)] <=> LiveTimers(l) # {}
    /\ (~cfg.aq[l].present \/ ~cfg.aq[l].enabled \/ cfg.aq[l].outputs = {}) =>
         (~bools[AqActiveKey(l)] /\ LiveTimers(l) = {} /\ ~uiTimers[AqTimerKey(l)])

\* C8, as stated: at the end of every cycle the active flag of each AQ level
\* is on exactly when the level has a live timer, and a stale flag or timer
\* of a disabled, output-less or missing level has been cleared.
C8_EveryCycle == last.cycle => AqFlagsMirrorTimers

\* C8, amended: the same at the end of every cycle except one the global gate
\* stops with an outside action that leaves everything untouched.
C8_FlagsMirrorTimers == (last.cycle /\ ~GateHolds) => AqFlagsMirrorTimers

C8_Witness ==
  /\ last.cycle /\ ~GateHolds /\ AqFlagsMirrorTimers
  /\ "air_aq_downstairs_active" \in scn.restored
  /\ ~cfg.aq["level1"].present
  /\ LiveTimers("level2") # {}

\* the state a started run leaves for a level: outputs commanded to the
\* configured level, flag on, one live timer of the full run duration
AqStarted(level, log) ==
  /\ \A e \in cfg.aq[level].outputs : <<e, AqOutputLevel(level)>> \in log
  /\ bools[AqActiveKey(level)]
  /\ \E t \in aqTimers :
       /\ LiveTimers(level) = {t}
       /\ t.due = now + AqDuration(level)
       /\ aqTasks[level] = t.id

\* a plain cycle that reached the AQ lane
AqLaneCycle == last.cycle /\ last.timer = "" /\ "aq" \in ran

\* C9: in a cycle that reaches the AQ lane, an idle enabled level whose
\* trigger is satisfied is started (outputs at the configured level, flag on,
\* exactly one timer of run_duration); a level whose timer is live and whose
\* trigger was and stays satisfied keeps that timer; a level whose timer is
\* live and whose trigger turns from unsatisfied to satisfied gets exactly
\* one fresh timer of the full duration.
C9_StartKeepReplace ==
  [][ \A l \in Levels :
        (AqLaneCycle' /\ cfg.aq[l].enabled /\ cfg.aq[l].outputs # {}
         /\ AqTriggered(Cur', l)) =>
          /\ ~AqRunning(Cur, l) => AqStarted(l, cmds)'
          /\ (AqRunning(Cur, l) /\ aqTriggerActive[l]) =>
               /\ LiveTimers(l)' = LiveTimers(l)
               /\ aqTasks'[l] = aqTasks[l]
          /\ (AqRunning(Cur, l) /\ ~aqTriggerActive[l]) => AqStarted(l, cmds)'
    ]_vars

C9_Witness ==
  /\ AqLaneCycle /\ now > 0
  /\ AqStarted("level1", cmds)
  /\ LiveTimers("level2") # {}
  /\ \E t \in LiveTimers("level2") : t.due < now + AqDuration("level2")

\* C10: when a run timer expires while the level's trigger is still
\* satisfied, the outputs are commanded again, the flag stays on and exactly
\* one new timer of the same duration is scheduled.
C10_ExpiryRestarts ==
  [][ \A l \in Levels :
        (last'.timer = l /\ AqTriggered(Cur, l)) =>
          (~last'.cycle /\ AqStarted(l, timerCmds)')
    ]_vars

C10_Witness ==
  /\ last.timer = "level1" /\ ~last.cycle
  /\ AqTriggered(Cur, "level1")
  /\ AqStarted("level1", timerCmds)
  /\ now >= AqDuration("level1")

\* the outputs of a level that another level with a live timer also drives
SharedWithLiveLevel(level) ==
  UNION { cfg.aq[l].outputs : l \in { x \in Levels \ {level} : LiveTimers(x) # {} } }

\* C11: when the run timer of an AQ level expires and none of its triggers is
\* satisfied, the callback commands to auto exactly those of its outputs that
\* are not also outputs of another level whose timer is still live, clears
\* the level's active flag and UI run timer, and runs a fresh evaluation.
C11_ExpiryReleases ==
  [][ \A l \in Levels :
        (last'.timer = l /\ ~AqTriggered(Cur, l)) =>
          /\ timerCmds' = { <<e, "auto">> : e \in cfg.aq[l].outputs \ SharedWithLiveLevel(l) }
          /\ ~bools'[AqActiveKey(l)]
          /\ ~uiTimers'[AqTimerKey(l)]
          /\ last'.cycle
    ]_vars

C11_Witness ==
  /\ last.timer = "level1" /\ last.cycle
  /\ ~AqTriggered(Cur, "level1")
  /\ timerCmds = {}
  /\ ~bools[AqActiveKey("level1")]
  /\ \E t \in LiveTimers("level2") : t.due < now + AqDuration("level2")
  /\ "fan.aq1" \in cfg.aq["level1"].outputs \cap cfg.aq["level2"].outputs

\* What the last cycle saw of the zones, read off the state it left behind.
ZoneActive(key) ==
  /\ cfg.zones[key].enabled
  /\ cfg.zones[key].triggers # {}
  /\ cfg.zones[key].outputs # {}
  /\ ZoneTriggerLevel(Cur, cfg.zones[key]) # ""

AnyZoneActive == \E z \in ZoneKeys : ZoneActive(z)

ActiveZoneOutputs == UNION { cfg.zones[z].outputs : z \in { x \in ZoneKeys : ZoneActive(x) } }

AllAqOutputs == UNION { cfg.aq[l].outputs : l \in Levels }

\* the cycle passed the control lock, the gate, pause, the CO lane and the alerts
LowerLanesReached ==
  last.cycle /\ LanesOpen /\ ~CoHigh /\ ~coEmergencyActive /\ ~AnyAlertTriggered

\* C12: the AQ lane is evaluated in a cycle only if neither the alert lane nor
\* a zone is active in it; a cycle in which a zone is active leaves every AQ
\* timer cancelled, the AQ flags and UI run timers cleared, and has commanded
\* to auto the outputs of each AQ level that was running (those the active
\* zone is not itself driving).
C12_ZoneTearsDownAq ==
  [][ /\ (last'.cycle /\ "aq" \in ran') => (~AnyAlertTriggered' /\ ~AnyZoneActive')
      /\ (LowerLanesReached' /\ AnyZoneActive') =>
           /\ "aq" \notin ran'
           /\ NoLiveTimers' /\ AqFlagsOff'
           /\ \A l \in Levels : ~uiTimers'[AqTimerKey(l)]
           /\ \A l \in Levels : LiveTimers(l) # {} =>
                \A e \in cfg.aq[l].outputs \ ActiveZoneOutputs' : <<e, "auto">> \in cmds'
    ]_vars

\* the part of C12 the code does keep: everything but the release to auto
C12_TeardownWithoutRelease ==
  /\ (last.cycle /\ "aq" \in ran) => (~AnyAlertTriggered /\ ~AnyZoneActive)
  /\ (LowerLanesReached /\ AnyZoneActive) =>
       /\ "aq" \notin ran
       /\ NoLiveTimers /\ AqFlagsOff
       /\ \A l \in Levels : ~uiTimers[AqTimerKey(l)]

\* C13: once async_stop has returned no AQ run timer and no startup recheck is
\* pending or scheduled again, and no evaluation cycle is begun, also when the
\* stop overlapped an evaluation that was still in progress.
C13_StopIsFinal ==
  [][ phase' = "stopped" =>
        /\ \A t \in aqTimers' : t.st = "cancelling"
        /\ startupRecheck' = NoTime
        /\ \A i \in Evals : evalPc[i] = "idle" => evalPc'[i] = "idle"
        /\ ~last'.cycle /\ last'.timer = ""
    ]_vars

AllHumidifierOutputs == UNION { cfg.humidifiers[l].outputs : l \in Levels }

\* the outputs the CO-emergency alerts select for themselves
CoAlertOutputs ==
  UNION { cfg.alerts[i].outputs \cap (FanEntities \cup SwitchEntities) : i \in CoAlertIdx }

ControlLocked == ControlLockReason(Cur) # ""

\* C14: a cycle that finds control disabled or manual override on evaluates no
\* lane, leaves no AQ timer alive, commands every zone and AQ output and every
\* CO-emergency alert output the latched emergency was driving to auto, every
\* humidifier output off, and publishes the lock reason.
C14_LockReleasesEverything ==
  [][ (last'.cycle /\ ControlLocked') =>
        /\ ran' = {} /\ lane' = "lock"
        /\ NoLiveTimers'
        /\ \A e \in AllZoneOutputs \cup AllAqOutputs : <<e, "auto">> \in cmds'
        /\ coEmergencyActive => \A e \in CoAlertOutputs : <<e, "auto">> \in cmds'
        /\ \A e \in AllHumidifierOutputs : <<e, "off">> \in cmds'
        /\ runtimeReason'.text = ControlLockReason(Cur)'
    ]_vars

\* the part of C14 the code keeps: zone, AQ and humidifier outputs only
C14_LockReleasesLaneOutputs ==
  (last.cycle /\ ControlLocked) =>
    /\ ran = {} /\ lane = "lock"
    /\ NoLiveTimers
    /\ Commanded(AllZoneOutputs \cup AllAqOutputs, "auto")
    /\ Commanded(AllHumidifierOutputs, "off")
    /\ runtimeReason.text = ControlLockReason(Cur)

TimeBlocked == cfg.time_gate.enabled /\ ~inWindow
PresenceBlocked == cfg.presence_gate.enabled /\ ~present

\* the engine's own flags: every switch but the ones the environment operates
EngineFlags == BoolKeys \ scn.knobs

\* a gate-blocked cycle that forces the safe state
SafeStateStep ==
  /\ lane' = "gate_safe" /\ ran' = {}
  /\ \A e \in AllZoneOutputs \cup AllAqOutputs : <<e, "auto">> \in cmds'
  /\ \A e \in AllHumidifierOutputs : <<e, "off">> \in cmds'
  /\ NoLiveTimers'
  /\ runtimeMode' = "global_gate"

\* a gate-blocked cycle that leaves everything as it is
HoldStep ==
  /\ lane' = "gate_hold" /\ ran' = {}
  /\ cmds' = {}
  /\ aqTimers' = aqTimers /\ aqTasks' = aqTasks /\ uiTimers' = uiTimers
  /\ \A k \in EngineFlags : bools'[k] = bools[k]
  /\ runtimeMode' = "global_gate"

\* a cycle the gate did not stop
TransparentStep ==
  /\ lane' \in {"pause", "co", "alert", "lanes"}
  /\ runtimeMode' # "global_gate"

\* a step that is one evaluation cycle, not locked, not a timer callback
UnlockedCycleStep == last'.cycle /\ last'.timer = "" /\ ~ControlLocked'

PauseTimerActive == pauseEnd # NoTime /\ now < pauseEnd

\* a cycle that stood down for the pause
PausedStep ==
  /\ lane' = "pause" /\ ran' = {}
  /\ NoLiveTimers'
  /\ \A e \in AllZoneOutputs \cup AllAqOutputs : <<e, "auto">> \in cmds'
  /\ \A e \in AllHumidifierOutputs : <<e, "off">> \in cmds'
  /\ runtimeMode' = "normal"
  /\ runtimeReason'.text = "paused"

\* C16: a cycle that is not locked, not stopped by the gate and finds the
\* pause timer active evaluates no CO, alert, zone, AQ or humidifier lane,
\* cancels the AQ timers, commands zone and AQ outputs auto and humidifiers
\* off, and publishes mode normal with the paused reason; this includes the
\* cycle pause_control requests, while the cycle resume_control requests finds
\* the pause over and evaluates the lanes.
C16_PauseStandsDown ==
  [][ /\ (last'.cycle /\ ~ControlLocked' /\ GateStatus(Cur)' /\ PauseTimerActive') =>
           PausedStep
      /\ (last'.cycle /\ pauseEnd # NoTime /\ pauseEnd' = NoTime) =>
           /\ lane' # "pause"
           /\ (~ControlLocked' /\ GateStatus(Cur)') => lane' \in {"co", "alert", "lanes"}
    ]_vars

\* pause_control was just called while a CO reading is at emergency level:
\* the cycle stood down all the same
C16_Witness ==
  /\ last.cycle /\ lane = "pause"
  /\ pauseEnd = now + PAUSE_TICKS
  /\ CoHigh
  /\ runtimeReason.text = "paused"
  /\ Commanded(AllZoneOutputs \cup AllAqOutputs, "auto")

\* the band of a humidifier level, in tenths like the averages
HumidifierLow(level) == 10 * (cfg.target_low + cfg.humidifiers[level].band_adjust)

HumidifierRecoveryOff(level) ==
  LET rib == IF cfg.humidifiers[level].recovery_in_band = NA
             THEN HUMIDIFIER_RECOVERY_IN_BAND_DEFAULT
             ELSE cfg.humidifiers[level].recovery_in_band
  IN  Min(10 * (cfg.target_high + cfg.humidifiers[level].band_adjust),
          HumidifierLow(level) + 10 * Max(1, Min(8, rib)))

HumidifierUsable(level) ==
  /\ cfg.humidifiers[level].present /\ cfg.humidifiers[level].enabled
  /\ cfg.humidifiers[level].outputs # {}

HumidifierCommands(level) ==
  { c \in cmds : c[1] \in cfg.humidifiers[level].outputs }

C18_UnusableHumidifierOff ==
  (last.cycle /\ "humidifiers" \in ran) =>
    \A l \in Levels :
      ~HumidifierUsable(l) =>
        /\ ~bools[HumidifierActiveKey(l)]
        /\ (cfg.humidifiers[l].present /\ ~cfg.humidifiers[l].enabled) =>
             Commanded(cfg.humidifiers[l].outputs, "off")

\* the flag of the disabled level was restored as on; the first cycle reached
\* the humidifier lane, cleared it and commanded the level's output off
C18_Witness ==
  /\ last.cycle /\ "humidifiers" \in ran /\ now = 0
  /\ "air_upstairs_humidifier_active" \in scn.restored
  /\ cfg.humidifiers["level2"].present /\ ~cfg.humidifiers["level2"].enabled
  /\ ~cfg.humidifiers["level1"].present
  /\ ~bools["air_upstairs_humidifier_active"]
  /\ <<"humidifier.l2", "off">> \in cmds

IsolationKeys == {"air_isolate_fan_outputs", "air_isolate_humidifier_outputs"}

\* the state s with both isolation switches off
Unisolated(s) == [s EXCEPT !.bools = [ k \in BoolKeys |-> IF k \in IsolationKeys THEN FALSE ELSE @[k] ]]

\* two cycle outcomes that differ at most in what reached the host and in
\* the notices of the reason
SameLogic(a, b) ==
  /\ a.mode = b.mode /\ a.reason.text = b.reason.text
  /\ a.lane = b.lane /\ a.ran = b.ran /\ a.cmds = b.cmds
  /\ a.tasks = b.tasks /\ a.aq_tasks = b.aq_tasks /\ a.trig = b.trig /\ a.ui = b.ui
  /\ a.co_active = b.co_active /\ a.co_below = b.co_below /\ a.last_alert = b.last_alert
  /\ \A k \in BoolKeys \ IsolationKeys : a.bools[k] = b.bools[k]

\* the outputs the fan lanes drive
FanLaneOutputs == AllZoneOutputs \cup AllAqOutputs \cup CoAlertOutputs

\* C19: while fan isolation is on no request for a fan or switch output
\* reaches the host, and while humidifier isolation is on no request for a
\* humidifier output does, from a cycle or from a timer callback; the cycle
\* decides mode, flags and timers exactly as it would without isolation, and
\* the published reason names every isolation that is on.
C19_IsolationSuppresses ==
  /\ bools["air_isolate_fan_outputs"] =>
       \A c \in calls : c[1] \notin FanLaneOutputs
  /\ bools["air_isolate_humidifier_outputs"] =>
       \A c \in calls : c[1] \notin AllHumidifierOutputs
  /\ (last.cycle /\ lane # "none") =>
       runtimeReason.notices =
         { n \in {"fan", "humidifier"} : bools["air_isolate_" \o n \o "_outputs"] }
  /\ (phase = "running" /\ \E k \in IsolationKeys : bools[k]) =>
       SameLogic(RunCycle(Cur), RunCycle(Unisolated(Cur)))

\* fan isolation is on and a timer callback released its level: the callback
\* asked for its output and the cycle for the zone output, neither request
\* reached the host, while the humidifier request of the cycle did
C19_Witness ==
  /\ bools["air_isolate_fan_outputs"]
  /\ last.timer = "level2" /\ last.cycle
  /\ <<"switch.vent", "auto">> \in timerCmds /\ <<"fan.zone1", "auto">> \in cmds
  /\ calls = { <<"humidifier.l2", "off">> }
  /\ ~bools[AqActiveKey("level2")]
  /\ "fan" \in runtimeReason.notices

\* humidifier isolation is on and the lane switched on: flag on, no call
C19_HumidifierWitness ==
  /\ bools["air_isolate_humidifier_outputs"]
  /\ last.cycle /\ <<"humidifier.l1", "on">> \in cmds
  /\ bools[HumidifierActiveKey("level1")]
  /\ \A c \in calls : c[1] # "humidifier.l1"

\* the mode the precedence zone1 > zone2 > air_quality > normal gives
LaneMode(aq_active) ==
  IF ZoneActive("zone1") THEN "cooking"
  ELSE IF ZoneActive("zone2") THEN "bathroom"
  ELSE IF aq_active THEN "air_quality"
  ELSE "normal"

\* C20: a cycle that passes the lock, gate, pause, CO and alert lanes publishes
\* zone1's mode (cooking) if zone1 is active, else zone2's mode (bathroom) if
\* zone2 is active, else air_quality if an AQ level is running, else normal.
C20_ModePrecedence ==
  LowerLanesReached =>
    /\ lane = "lanes"
    /\ last.timer = "" => runtimeMode = LaneMode(~NoLiveTimers)
    /\ last.timer # "" => runtimeMode \in { LaneMode(TRUE), LaneMode(FALSE) }

\* both zones are active: both outputs run, the mode is zone1's
C20_Witness ==
  /\ LowerLanesReached /\ last.timer = ""
  /\ ZoneActive("zone1") /\ ZoneActive("zone2")
  /\ Commanded({"fan.zone1"}, "66") /\ Commanded({"fan.zone2"}, "33")
  /\ runtimeMode = "cooking"

\* the levels a zone's satisfied triggers contribute: humidity_high and
\* air_quality_bad the normal level, condensation_risk and mould_risk the
\* boost level, which is never below the normal level
ZoneContributions(zone, sat) ==
  LET normal == NormalizeFanLevel(zone.output_level, ZONE_OUTPUT_LEVEL_DEFAULT)
      boost == NormalizeFanLevel(zone.boost_output_level, ZONE_OUTPUT_LEVEL_BOOST_DEFAULT)
  IN  (IF sat \cap {"humidity_high", "air_quality_bad"} # {} THEN {normal} ELSE {})
      \cup (IF sat \cap {"condensation_risk", "mould_risk"} # {}
            THEN { IF FanLevelRank(boost) >= FanLevelRank(normal) THEN boost ELSE normal }
            ELSE {})

\* the outputs only this zone drives
ZoneOwnOutputs(key) ==
  cfg.zones[key].outputs
    \ (AllAqOutputs \cup UNION { cfg.zones[z].outputs : z \in ZoneKeys \ {key} })

\* C21: in a cycle that reaches the zone lanes, a zone with outputs and a
\* satisfied trigger has every output commanded to the maximum-rank level
\* (auto < 33 < 66 < 100) among the levels its satisfied triggers contribute;
\* a zone that is disabled, has no triggers, no outputs or no satisfied
\* trigger has no run level commanded to the outputs only it drives.
C21_ZoneRunLevel ==
  LowerLanesReached =>
    \A key \in ZoneKeys :
      LET zone == cfg.zones[key]
          levels == ZoneContributions(zone, ZoneTriggersSatisfied(Cur, zone))
      IN  IF zone.enabled /\ zone.outputs # {} /\ levels # {}
          THEN \E top \in levels :
                 /\ \A l \in levels : FanLevelRank(l) <= FanLevelRank(top)
                 /\ Commanded(zone.outputs, top)
          ELSE \A e \in ZoneOwnOutputs(key) :
                 \A l \in {"33", "66", "100"} : <<e, l>> \notin cmds

\* humidity_high (kitchen 20 points above the house) and condensation_risk
\* (spread 1.7 K) are both satisfied: zone1 runs at its boost level, and
\* zone2, configured with a boost below its normal level, runs at normal
C21_Witness ==
  /\ LowerLanesReached /\ cfg = CfgTriggers
  /\ sens["sensor.kitchen_h"] = 90 /\ sens["sensor.hall_h"] = 50
  /\ {"humidity_high", "condensation_risk"}
       \subseteq ZoneTriggersSatisfied(Cur, cfg.zones["zone1"])
  /\ Commanded({"fan.zone1"}, "100") /\ ~Commanded({"fan.zone1"}, "33")
  /\ Commanded({"fan.zone2"}, "66") /\ ~Commanded({"fan.zone2"}, "33")

\* humidity_high alone: zone1 runs at its normal level, zone2 commands nothing
C21_NormalWitness ==
  /\ LowerLanesReached /\ cfg = CfgTriggers
  /\ ZoneTriggersSatisfied(Cur, cfg.zones["zone1"]) = {"humidity_high"}
  /\ Commanded({"fan.zone1"}, "33")
  /\ \A c \in cmds : c[1] # "fan.zone2"

\* C22: every evaluation cycle ends with the refresh of the computed sensors,
\* whichever lane ended it and also when the lane logic raised; the exception
\* is logged and does not reach the trigger, and a later cycle that does not
\* raise is a normal one: it ends in a lane and, when it reaches the lower
\* lanes, publishes the mode the lanes give.
C22_RefreshAlways ==
  last.cycle =>
    /\ last.refreshed
    /\ last.error \in {"none", "logged"}
    /\ last.error = "logged" <=> lane = "raised"
    /\ last.error = "none" =>
         /\ lane \in {"lock", "gate_safe", "gate_hold", "pause", "co", "alert", "lanes"}
         /\ LowerLanesReached =>
              /\ lane = "lanes"
              /\ last.timer = "" => runtimeMode = LaneMode(~NoLiveTimers)

\* a cycle raised after the alert lane had run: logged, refreshed, and the
\* engine still running
C22_Witness ==
  /\ last.cycle /\ last.error = "logged" /\ last.refreshed
  /\ lane = "raised" /\ "alerts" \in ran
  /\ phase = "running"

\* a threshold clamped into [10, 100]; missing or malformed gives 15
ClampedCoThreshold(value) ==
  IF value = NA THEN 15
  ELSE IF value < 10 THEN 10
  ELSE IF value > 100 THEN 100
  ELSE value

\* C23: for every alert configuration the effective CO start threshold lies in
\* [10, 100]: 15 without an enabled co_emergency alert, else the least of the
\* enabled co_emergency alerts' thresholds, each clamped into [10, 100]; the
\* clear threshold is start - 5, at least 0 and below start; a reading below
\* the start threshold (CO 8 with a configured threshold of 1) does not start
\* the emergency.
C23_CoThresholds ==
  /\ [] LET clamped == { ClampedCoThreshold(cfg.alerts[i].threshold) :
                           i \in { j \in DOMAIN cfg.alerts :
                                     cfg.alerts[j].enabled
                                     /\ cfg.alerts[j].trigger_type = "co_emergency" } }
            start == CoEmergencySettings.start
            clear == CoEmergencySettings.clear
        IN  /\ start \in 10..100
            /\ clamped = {} => start = 15
            /\ clamped # {} => start \in clamped /\ \A t \in clamped : start <= t
            /\ clear = start - 5 /\ clear >= 0 /\ clear < start
  /\ [][ (~coEmergencyActive /\ last'.cycle) =>
           (coEmergencyActive' <=> \E e \in DOMAIN sens : sens'[e] >= CoEmergencySettings.start)
       ]_vars

\* an enabled co_emergency alert configured with threshold 1 and one with 150:
\* the start threshold is 10, and a cycle that read CO 8 ran the lower lanes
C23_Witness ==
  /\ Len(cfg.alerts) = 2
  /\ cfg.alerts[1] = Alert(TRUE, "co_emergency", 1, {"fan.zone1"})
  /\ cfg.alerts[2] = Alert(TRUE, "co_emergency", 150, {"fan.zone1"})
  /\ CoEmergencySettings.start = 10 /\ CoEmergencySettings.clear = 5
  /\ last.cycle /\ sens["sensor.co_val"] = 8
  /\ ~coEmergencyActive /\ lane = "lanes"

FanLevels == {"auto", "33", "66", "100"}

\* C24: every level the engine commands to an output is one of auto, 33, 66
\* and 100, whatever output_level and boost_output_level are configured, in
\* the zone lane, the AQ lane, the CO emergency and the restart of an AQ run
\* by its timer; a configured 64 is issued as 66.
C24_LevelsAreSteps ==
  /\ \A c \in cmds \cup calls \cup timerCmds : c[2] \in FanLevels
  /\ (LowerLanesReached /\ cfg.zones["zone1"].output_level \in { Num(64), Txt(<<"6", "4", "%">>) }
        /\ ZoneTriggersSatisfied(Cur, cfg.zones["zone1"]) = {"air_quality_bad"})
       => cmds = { <<"fan.zone1", "66">> }
  /\ (cfg.aq["level1"].output_level \in { Num(64), Txt(<<"6", "4", "%">>) }
        /\ last.timer = "level1" /\ ~last.cycle)
       => timerCmds = { <<"fan.aq1", "66">> }

\* the timer of an AQ run configured with 64 restarts the run at 66 %
C24_Witness ==
  /\ cfg.aq["level1"].output_level = Num(64)
  /\ last.timer = "level1" /\ ~last.cycle
  /\ timerCmds = { <<"fan.aq1", "66">> }

\* a zone configured with 64 runs at 66 %
C24_ZoneWitness ==
  /\ cfg.zones["zone1"].output_level = Num(64)
  /\ LowerLanesReached /\ cmds = { <<"fan.zone1", "66">> }

\* the numbers the texts stand for; texts not listed cannot be read
TextNumber(t) ==
  CASE t = <<"0", "%">> -> 0
    [] t = <<"5", "0">> -> 50
    [] t = <<"6", "4", "%">> -> 64
    [] t = <<"0", ".", "5">> -> 0
    [] t = <<"1", "5", "0">> -> 150
    [] t = <<"-", "5">> -> -5
    [] OTHER -> NA

IsAutoText(t) == t \in { <<"a", "u", "t", "o">>, <<" ", "A", "u", "t", "o", " ">> }

\* the level of a number
StepOf(n) ==
  IF n <= 0 THEN "auto"
  ELSE IF n >= 100 THEN "100"
  ELSE CHOOSE l \in {"33", "66", "100"} :
         /\ \A m \in {"33", "66", "100"} :
              Abs(FanLevelRank(l) - n) <= Abs(FanLevelRank(m) - n)
         /\ \A m \in {"33", "66", "100"} :
              Abs(FanLevelRank(m) - n) = Abs(FanLevelRank(l) - n)
                => FanLevelRank(l) <= FanLevelRank(m)

\* the normalisation of a configured level with fallback 66, as stated
ExpectedLevel(v, none_level) ==
  IF v.k = "none" THEN none_level
  ELSE IF v.k = "int" THEN StepOf(v.n)
  ELSE IF IsAutoText(v.t) THEN "auto"
  ELSE IF v.t \in { <<"x">>, << >>, <<"%">> } THEN "66"
  ELSE StepOf(TextNumber(v.t))

\* C25 as stated: 0, "0%" and None give auto; a value <= 0 gives auto; a
\* value >= 100 gives 100; a value between gives the nearest of 33, 66 and
\* 100 (50 gives 66); the text auto gives auto.
C25_NoneIsAuto ==
  /\ NormalizeFanLevel(cfg.zones["zone1"].output_level, ZONE_OUTPUT_LEVEL_DEFAULT)
       = ExpectedLevel(cfg.zones["zone1"].output_level, "auto")
  /\ (LowerLanesReached
        /\ ZoneTriggersSatisfied(Cur, cfg.zones["zone1"]) = {"air_quality_bad"})
       => cmds = { <<"fan.zone1", ExpectedLevel(cfg.zones["zone1"].output_level, "auto")>> }

\* C25: normalisation gives auto for 0, "0%", any value <= 0 and the text
\* auto; 100 for any value >= 100; the nearest of 33, 66 and 100 for a value
\* between (50 gives 66), a fraction being dropped first; a missing level
\* (None) and a text that cannot be read give the level of the fallback, 66
\* for the default fallback.  A zone triggered at its normal level commands
\* that level.
C25_Normalization ==
  /\ NormalizeFanLevel(cfg.zones["zone1"].output_level, ZONE_OUTPUT_LEVEL_DEFAULT)
       = ExpectedLevel(cfg.zones["zone1"].output_level, "66")
  /\ NormalizeFanLevel(Num(50), ZONE_OUTPUT_LEVEL_DEFAULT) = "66"
  /\ NormalizeFanLevel(None, ZONE_OUTPUT_LEVEL_BOOST_DEFAULT) = "100"
  /\ (LowerLanesReached
        /\ ZoneTriggersSatisfied(Cur, cfg.zones["zone1"]) = {"air_quality_bad"})
       => cmds = { <<"fan.zone1", ExpectedLevel(cfg.zones["zone1"].output_level, "66")>> }

\* a zone with no configured level is triggered and runs at 66 %
C25_Witness ==
  /\ cfg.zones["zone1"].output_level = None
  /\ LowerLanesReached
  /\ ZoneTriggersSatisfied(Cur, cfg.zones["zone1"]) = {"air_quality_bad"}
  /\ cmds = { <<"fan.zone1", "66">> }

\* the entity is at the state the operation asks for
AtTarget(hs, e, target) ==
  IF target \in {"on", "off"} THEN hs.state = target
  ELSE IF e \in SwitchEntities THEN hs.state = (IF target = "auto" THEN "off" ELSE "on")
  ELSE IF target = "auto" THEN hs.preset = "auto"
  ELSE hs.state = "on" /\ hs.percentage = FanLevelRank(target)

\* C26 as stated: an operation called twice in succession with the same
\* target for the same entity, the host reflecting the first call, issues at
\* most one service command, and none when the entity is already at the
\* requested state.
C26_AtMostOneCommand ==
  [][ /\ (drv'.repeat /\ drv'.e # "") => Cardinality(svc) + Cardinality(svc') <= 1
      /\ (drv'.e # "" /\ AtTarget(host[drv'.e], drv'.e, drv'.target)) => svc' = {}
    ]_vars

\* C26: each driver operation issues no service command when the entity is
\* already at the requested state, and none when it is called again with the
\* same target after a call the host has carried out; a call issues one
\* service command, except that a fan level for a fan that is not on issues
\* turn_on followed by set_percentage.
C26_Idempotent ==
  [][ drv'.e # "" =>
        /\ AtTarget(host[drv'.e], drv'.e, drv'.target) => svc' = {}
        /\ drv'.repeat => svc' = {}
        /\ Cardinality(svc') <= 1
           \/ /\ drv'.e \in FanEntities /\ drv'.target \in {"33", "66", "100"}
              /\ host[drv'.e].state # "on"
              /\ { <<c[3], c[4]>> : c \in svc' } \subseteq
                   { <<"fan.turn_on", "">>, <<"fan.set_percentage", drv'.target>> }
    ]_vars

\* the fan was off, a first call turned it on at 66 %, the second call of the
\* same operation issued nothing
C26_Witness ==
  /\ drv = [ e |-> "fan.zone1", target |-> "66", how |-> "ok", repeat |-> TRUE ]
  /\ svc = {}
  /\ host["fan.zone1"] = HostState("on", 66, "")

\* the state each lane wants its outputs in at the end of the last cycle
ZoneTargets ==
  UNION { { <<e, ZoneTriggerLevel(Cur, cfg.zones[z])>> : e \in cfg.zones[z].outputs } :
            z \in { x \in ZoneKeys : ZoneActive(x) } }

AqTargets ==
  UNION { { <<e, AqOutputLevel(l)>> : e \in cfg.aq[l].outputs } :
            l \in { x \in Levels : LiveTimers(x) # {} /\ bools[AqActiveKey(x)] } }

HumidifierTargets ==
  UNION { { <<e, "on">> : e \in cfg.humidifiers[l].outputs } :
            l \in { x \in Levels : bools[HumidifierActiveKey(x)] } }

\* an output whose actual state differed from the target was commanded again
Reissued(targets, before, issued) ==
  \A t \in targets :
    ~AtTarget(before[t[1]], t[1], t[2]) => \E c \in issued : c[1] = t[1]

\* C27: a failed or lost output command does not stop the cycle and is not
\* retried in it; the next cycle issues the command again as long as the
\* output's actual state differs from the lane's target state, for zone
\* outputs, AQ outputs and humidifier outputs alike.
C27_RetryNextCycle ==
  [][ (last'.cycle /\ LowerLanesReached') =>
        /\ lane' = "lanes"
        /\ \A c \in svc' : \A d \in svc' : (c[1] = d[1] /\ c[2] = d[2]) => c = d
        /\ Reissued(ZoneTargets', host, svc')
        /\ Reissued(AqTargets', host, svc')
        /\ Reissued(HumidifierTargets', host, svc')
    ]_vars

\* the zone lane alone: a lost run-level command is issued again by the next cycle
C27_ZonesRetry ==
  [][ (last'.cycle /\ LowerLanesReached') =>
        /\ lane' = "lanes"
        /\ \A c \in svc' : \A d \in svc' : (c[1] = d[1] /\ c[2] = d[2]) => c = d
        /\ Reissued(ZoneTargets', host, svc')
    ]_vars

\* the AQ run is in its second cycle, its fan never received the run level
\* (the start command was lost), and the cycle issued nothing
C27_AqNotRetried ==
  /\ last.cycle /\ last.timer = "" /\ LowerLanesReached
  /\ <<"fan.aq1", "66">> \in AqTargets
  /\ \E t \in LiveTimers("level1") : t.due < now + AqDuration("level1")
  /\ host["fan.aq1"].state = "off"
  /\ \A c \in svc : c[1] # "fan.aq1"

\* the humidifier flag is on, the humidifier never received turn_on, and the
\* cycle issued nothing
C27_HumidifierNotRetried ==
  /\ last.cycle /\ LowerLanesReached
  /\ bools[HumidifierActiveKey("level1")]
  /\ host["humidifier.l1"].state = "off"
  /\ \A c \in svc : c[1] # "humidifier.l1"
  /\ now > 0

\* the outputs of the AQ levels with a live run timer
LiveAqOutputs == UNION { cfg.aq[l].outputs : l \in { x \in Levels : LiveTimers(x) # {} } }

C28_ExpiryWitness ==
  /\ LowerLanesReached /\ ~AnyZoneActive /\ last.timer = "level2"
  /\ "fan.zone2" \in AllZoneOutputs \ LiveAqOutputs
  /\ <<"fan.zone2", "auto">> \in timerCmds
  /\ \A c \in cmds : c[1] # "fan.zone2"

\* C29: for each alert index two flash-effect calls are never less than 30
\* seconds apart, whatever the sequence and interleaving of cycles; a cycle
\* that skips the flash of a triggered alert for the rate limit still ends in
\* the alert lane, with mode alert and the alert's flag on.
C29_FlashRateLimit ==
  [][ \A i \in 1..2 :
        /\ i \in flashes' =>
             flashedAt[i] = NoTime \/ now' - flashedAt[i] >= ALERT_FLASH_GAP
        /\ i \in flashLimited' =>
             /\ runtimeMode' = "alert" /\ lane' = "alert"
             /\ bools'[AlertSwitchKey(i)]
    ]_vars

\* an evaluation within 30 seconds of the flash, while another evaluation is
\* suspended: the alert lane is active and the flash is skipped
C29_Witness ==
  /\ 1 \in flashLimited /\ flashes = {}
  /\ flashedAt[1] = now
  /\ lane = "alert" /\ runtimeMode = "alert" /\ bools[AlertSwitchKey(1)]
  /\ \E j \in Evals : evalPc[j] # "idle"

\* the flash is called again once 30 seconds have passed
C29_SecondFlashWitness ==
  /\ 1 \in flashes /\ flashedAt[1] = now /\ lastAlert[1] = now
  /\ now >= ALERT_FLASH_GAP
  /\ lane = "alert"

\* C30: once an evaluation cycle or stop has cancelled a level's timer (its
\* handle is dropped or replaced, or the engine is stopped), the timer's
\* callback does nothing more, also when it was suspended between two of its
\* steps: the task stays as it is until the event loop unwinds it, and that
\* step issues no command, changes no flag, schedules no timer and runs no
\* evaluation.
TimerCancelled(t) == aqTasks[t.level] # t.id \/ phase = "stopped"

C30_CancelledCallbackIsInert ==
  [][ \A t \in aqTimers :
        TimerCancelled(t) =>
          \/ t \in aqTimers'
          \/ /\ aqTimers' = aqTimers \ {t}
             /\ calls' = {} /\ cmds' = {} /\ timerCmds' = {}
             /\ bools' = bools /\ uiTimers' = uiTimers
             /\ aqTasks' = aqTasks /\ aqTriggerActive' = aqTriggerActive
             /\ ~last'.cycle /\ last'.timer = ""
    ]_vars

\* a callback suspended after its release commands has been cancelled by a
\* cycle that started a new run of the level
C30_Witness ==
  \E t \in aqTimers :
    /\ t.st = "unwinding"
    /\ aqTasks[t.level] \notin {NoTask, t.id}
    /\ \E n \in aqTimers : n.id = aqTasks[t.level] /\ n.st = "sleeping"
    /\ last.cycle /\ phase = "running"

\* a suspended callback cancelled by async_stop
C30_StopWitness ==
  \E t \in aqTimers : t.st = "unwinding" /\ phase = "stopped" /\ aqTasks[t.level] = t.id

\* a suspended callback cancelled by a cycle that ends in the alert lane
C30_LaneWitness ==
  \E t \in aqTimers : t.st = "unwinding" /\ lane = "alert" /\ aqTasks[t.level] = NoTask

\* ---------------------------------------------------------------------------
\* C31: a sensor whose state is missing, unknown, unavailable or not a number
\* contributes no value: every collection and average is the one over the
\* sensors with a numeric state, and a lane whose needed readings are all
\* absent does not fire: no zone trigger is satisfied, no AQ trigger, the CO
\* emergency does not start, no alert is raised and no humidifier is turned on.
Absent(e) == sens[e] \in {NA, STATE_UNKNOWN, STATE_UNAVAILABLE, STATE_TEXT}

NumericIds(stype, level) ==
  { x.id : x \in { y \in cfg.telemetry :
                     y.stype = stype /\ (level = "" \/ y.level = level) /\ ~Absent(y.id) } }

NumericRoomIds(stype, rooms) ==
  { x.id : x \in { y \in cfg.telemetry : y.stype = stype /\ y.room \in rooms /\ ~Absent(y.id) } }

MeanOf(ids) == IF ids = {} THEN NA ELSE RoundTenths(SumOver(sens, ids), Cardinality(ids))

\* no room has both a humidity and a temperature reading
NoRoomReading ==
  \A h \in cfg.telemetry : \A t \in cfg.telemetry :
    (h.stype = "humidity" /\ t.stype = "temperature" /\ h.room # "" /\ h.room = t.room)
      => Absent(h.id) \/ Absent(t.id)

\* the readings a zone trigger needs are all absent
ZoneTriggerUnread(zone, trigger) ==
  CASE trigger = "humidity_high" ->
         NumericRoomIds("humidity", zone.rooms) = {} \/ NumericIds("humidity", "") = {}
    [] trigger = "air_quality_bad" -> NumericIds("iaq", zone.level) = {}
    [] OTHER -> NoRoomReading

SensorTypes == {"humidity", "temperature", "iaq", "co"}

C31_MixedWitness ==
  /\ sens["sensor.kitchen_h"] = STATE_UNAVAILABLE /\ sens["sensor.hall_h"] = 40
  /\ LevelAvg(Cur, "humidity", "level1") = 400
  /\ last.cycle /\ bools[HumidifierActiveKey("level1")]
\* ---------------------------------------------------------------------------
\* C32: the humidifier band is the seasonal low and high shifted by band_adjust
\* clamped to [-3, 3], and the recovery-off point is min(high, low +
\* recovery_in_band) with recovery_in_band clamped to [1, 8] (default 3): a
\* cycle turns the level on at or below low, off at or above recovery-off,
\* and leaves it as it is in between.
BandFlagAfter(avg, on, low, recovery_off) ==
  IF avg <= 10 * low THEN TRUE
  ELSE IF avg >= 10 * recovery_off THEN FALSE
  ELSE on

ClampedRecovery(hc) ==
  Max(1, Min(8, IF hc.recovery_in_band = NA THEN 3 ELSE hc.recovery_in_band))

HumidifierLevelRuns(l) ==
  cfg.humidifiers[l].present /\ cfg.humidifiers[l].enabled /\ cfg.humidifiers[l].outputs # {}

\* the band as the claim states it
C32_BandClamped ==
  [][ (last'.cycle /\ "humidifiers" \in ran') =>
        \A l \in Levels :
          (HumidifierLevelRuns(l) /\ LevelAvg([sens |-> sens'], "humidity", l) # NA) =>
            bools'[HumidifierActiveKey(l)] =
              BandFlagAfter(LevelAvg([sens |-> sens'], "humidity", l),
                            bools[HumidifierActiveKey(l)],
                            cfg.target_low + Max(-3, Min(3, cfg.humidifiers[l].band_adjust)),
                            Min(cfg.target_high + Max(-3, Min(3, cfg.humidifiers[l].band_adjust)),
                                cfg.target_low + Max(-3, Min(3, cfg.humidifiers[l].band_adjust))
                                  + ClampedRecovery(cfg.humidifiers[l])))
    ]_vars

\* the band the engine uses: band_adjust as configured, recovery_in_band clamped
C32_BandAsConfigured ==
  [][ (last'.cycle /\ "humidifiers" \in ran') =>
        \A l \in Levels :
          (HumidifierLevelRuns(l) /\ LevelAvg([sens |-> sens'], "humidity", l) # NA) =>
            bools'[HumidifierActiveKey(l)] =
              BandFlagAfter(LevelAvg([sens |-> sens'], "humidity", l),
                            bools[HumidifierActiveKey(l)],
                            cfg.target_low + cfg.humidifiers[l].band_adjust,
                            Min(cfg.target_high + cfg.humidifiers[l].band_adjust,
                                cfg.target_low + cfg.humidifiers[l].band_adjust
                                  + ClampedRecovery(cfg.humidifiers[l])))
    ]_vars

\* with band_adjust 5 in winter the level is turned on at 49 %, above the
\* highest low the clamp allows (45 + 3)
C32_ShiftedBeyondClamp ==
  /\ cfg.humidifiers["level1"].band_adjust = 5 /\ cfg.target_low = 45
  /\ sens["sensor.hall_h"] = 49
  /\ last.cycle /\ bools[HumidifierActiveKey("level1")]
  /\ <<"humidifier.l1", "on">> \in cmds
\* ---------------------------------------------------------------------------
\* C33: an enabled co_emergency alert whose CO reading is at or above its own
\* clamped threshold makes the alert lane active in that cycle: the lane ends
\* the cycle, the alert's active flag is on and its flash effect is called
\* unless the rate limit holds it back.
CoAlertMet(i) ==
  /\ cfg.alerts[i].enabled /\ cfg.alerts[i].trigger_type = "co_emergency"
  /\ \E v \in CollectValues(Cur, "co") : v >= SafeAlertThreshold(cfg.alerts[i].threshold)

C33_CoAlertRaisesAlertLane ==
  \A i \in DOMAIN cfg.alerts :
    (last.cycle /\ LanesOpen /\ CoAlertMet(i)) =>
      /\ lane = "alert" /\ runtimeMode = "alert"
      /\ bools[AlertSwitchKey(i)]
      /\ i \in flashes \cup flashLimited

\* what the engine does instead: the CO emergency lane, whose start threshold
\* is the least of those thresholds, ends the cycle with the alert flags off
\* and no flash
C33_CoLanePreempts ==
  \A i \in DOMAIN cfg.alerts :
    (last.cycle /\ LanesOpen /\ CoAlertMet(i)) =>
      /\ lane = "co" /\ runtimeMode = "co_emergency"
      /\ ~bools[AlertSwitchKey(i)]
      /\ flashes = {} /\ flashLimited = {}

C33_CoAlertMetWitness ==
  /\ Len(cfg.alerts) >= 1
  /\ last.cycle /\ LanesOpen /\ CoAlertMet(1)
  /\ cfg.alerts[1].outputs # {}
  /\ lane = "co" /\ ~bools[AlertSwitchKey(1)]
\* ---------------------------------------------------------------------------
\* C34: a cycle publishes runtime mode air_quality only if at its end some AQ
\* level has a live run timer (not expired, not cancelled) and that level's
\* active flag is on; the cycle a timer requests after expiring with no
\* trigger satisfied does not publish air_quality for the expired timer.
LiveAqTimer(l) ==
  \E t \in aqTimers : t.id = aqTasks[l] /\ t.level = l /\ t.st = "sleeping"

C34_AirQualityNeedsLiveTimer ==
  (last.cycle /\ runtimeMode = "air_quality") =>
    \E l \in Levels : LiveAqTimer(l) /\ bools[AqActiveKey(l)]

\* the cycles that no timer callback requested do keep to it
C34_OutsideCallbackHolds ==
  (last.cycle /\ last.timer = "" /\ runtimeMode = "air_quality") =>
    \E l \in Levels : LiveAqTimer(l) /\ bools[AqActiveKey(l)]

\* the cycle requested by the expired timer of level 1 has published
\* air_quality with no timer left and every AQ flag off
C34_ExpiredTimerPublished ==
  /\ last.cycle /\ last.timer = "level1" /\ runtimeMode = "air_quality"
  /\ aqTimers = {} /\ \A l \in Levels : ~bools[AqActiveKey(l)] /\ ~uiTimers[AqTimerKey(l)]
  /\ ~AqTriggered(Cur, "level1")
\* ---------------------------------------------------------------------------
\* C35: at the end of every cycle that passes the lock, gate, pause, CO and
\* alert lanes, each output of a zone that is not active in the cycle, and
\* that is neither an output of the active zone nor of a running AQ lane, has
\* been commanded to auto, also when the other zone is active.
\* (An output of the AQ level whose expired timer requested the cycle counts
\* as commanded when the timer callback released it.)
ReleasedToAuto(e) ==
  \/ <<e, "auto">> \in cmds
  \/ last.timer # "" /\ <<e, "auto">> \in timerCmds

C35_InactiveZoneReleased ==
  LowerLanesReached =>
    \A z \in ZoneKeys :
      ~ZoneActive(z) =>
        \A e \in cfg.zones[z].outputs \ (ActiveZoneOutputs \cup LiveAqOutputs) :
          ReleasedToAuto(e)

\* the same when no zone is active in the cycle, which is what the engine does
C35_ReleasedWhenNoZoneActive ==
  (LowerLanesReached /\ ~AnyZoneActive) =>
    \A z \in ZoneKeys :
      \A e \in cfg.zones[z].outputs \ LiveAqOutputs : ReleasedToAuto(e)

\* zone2 is not triggering while zone1 is active: the cycle commanded
\* nothing to zone2's fan, whatever level an earlier cycle left it at
C35_StaleZoneFan ==
  /\ LowerLanesReached /\ ZoneActive("zone1") /\ ~ZoneActive("zone2")
  /\ cfg.zones["zone2"].outputs = {"fan.zone2"}
  /\ "fan.zone2" \notin ActiveZoneOutputs \cup LiveAqOutputs
  /\ \A c \in cmds : c[1] # "fan.zone2"
  /\ <<"fan.zone1", "66">> \in cmds
  /\ now > 0
\* ---------------------------------------------------------------------------
\* C36: for a humidifier level whose outputs are not shared with the other
\* level, with isolation off, whenever the level's active flag is off at the
\* end of a cycle the last command the engine issued to each of its outputs is
\* off, or none was ever issued.
OwnHumidifierOutputs(l) ==
  cfg.humidifiers[l].outputs \ UNION { cfg.humidifiers[x].outputs : x \in Levels \ {l} }

C36_FlagOffMeansHumidifierOff ==
  \A l \in Levels :
    (last.cycle /\ ~bools["air_isolate_humidifier_outputs"]
       /\ ~bools[HumidifierActiveKey(l)]) =>
      \A e \in OwnHumidifierOutputs(l) : humidifierCmd[e] \in {"off", ""}

\* the engine clears the flag without an off command only in a cycle that
\* finds no humidity reading for the level
C36_ClearedWithoutOffOnlyUnread ==
  [][ \A l \in Levels :
        (last'.cycle /\ ~bools'["air_isolate_humidifier_outputs"]
           /\ bools[HumidifierActiveKey(l)] /\ ~bools'[HumidifierActiveKey(l)]
           /\ \E e \in OwnHumidifierOutputs(l) : <<e, "off">> \notin calls')
          => LevelAvg([sens |-> sens'], "humidity", l) = NA
    ]_vars

\* the humidity sensor of level 1 went missing while the humidifier was on:
\* the cycle cleared the flag and issued nothing to the humidifier
C36_LeftRunning ==
  /\ last.cycle /\ lane = "lanes" /\ sens["sensor.hall_h"] = NA
  /\ ~bools["air_isolate_humidifier_outputs"]
  /\ ~bools[HumidifierActiveKey("level1")]
  /\ humidifierCmd["humidifier.l1"] = "on"
  /\ \A c \in cmds : c[1] # "humidifier.l1"

\* the reading is back and above the recovery-off point (48 %): the flag is
\* off, so the cycle does not turn the humidifier off either
C36_RunsAboveBand ==
  /\ last.cycle /\ lane = "lanes" /\ sens["sensor.hall_h"] = 50
  /\ ~bools["air_isolate_humidifier_outputs"]
  /\ ~bools[HumidifierActiveKey("level1")]
  /\ humidifierCmd["humidifier.l1"] = "on"
  /\ \A c \in cmds : c[1] # "humidifier.l1"

\* no step issues both commands to one humidifier
C36_OneCommandPerStep ==
  \A e \in HumidifierEntities : ~(<<e, "on">> \in calls /\ <<e, "off">> \in calls)

\* ---------------------------------------------------------------------------
\* C37: the isolation flags change what reaches the outputs and the notice of
\* the reason, and nothing else.  From every reachable state, one evaluation
\* cycle, and the callback of every sleeping run timer, leave the same
\* published mode, reason text, active flags, CO latch, run timers and
\* trigger memory whatever the two isolation flags are; the requests made of
\* the driver are the same too, and only those of an isolated domain are kept
\* from the host.
\* the state s with the two isolation flags set as given
Isolated(s, fan, humidifier) ==
  [s EXCEPT !.bools["air_isolate_fan_outputs"] = fan,
            !.bools["air_isolate_humidifier_outputs"] = humidifier]

\* what the engine publishes and keeps, without the dispatched calls and the
\* isolation notice
Observed(s) ==
  [ mode |-> s.mode, reason |-> s.reason.text, lane |-> s.lane, ran |-> s.ran,
    flags |-> [ k \in (DOMAIN s.bools) \ IsolationKeys |-> s.bools[k] ],
    ui |-> s.ui, pause_end |-> s.pause_end,
    co_active |-> s.co_active, co_below |-> s.co_below,
    aq_tasks |-> s.aq_tasks, tasks |-> s.tasks, trig |-> s.trig,
    last_alert |-> s.last_alert, flash |-> s.flash, limited |-> s.limited,
    cmds |-> s.cmds ]

ObservedCallback(r) ==
  [ s |-> Observed(r.s), tcmds |-> r.tcmds, cycle |-> r.cycle ]

SleepingTimers == { t \in aqTimers : t.st = "sleeping" /\ t.due <= now }

C37_IsolationOnlyWithholdsCommands ==
  \A fan, humidifier \in BOOLEAN :
    /\ Observed(RunCycle(Isolated(Cur, fan, humidifier)))
         = Observed(RunCycle(Isolated(Cur, FALSE, FALSE)))
    /\ \A t \in SleepingTimers :
         ObservedCallback(TimerCallback(Isolated(Cur, fan, humidifier), t))
           = ObservedCallback(TimerCallback(Isolated(Cur, FALSE, FALSE), t))

\* a cycle under fan isolation ran a fan lane: the request for a run level
\* was made of the driver and withheld from the host
C37_Witness ==
  /\ last.cycle
  /\ bools["air_isolate_fan_outputs"]
  /\ \E c \in cmds \ calls : c[1] \in FanLaneOutputs /\ c[2] # "auto"
  /\ "fan" \in runtimeReason.notices

\* a cycle under humidifier isolation switched a humidifier on, withheld
C37_HumidifierWitness ==
  /\ last.cycle
  /\ bools["air_isolate_humidifier_outputs"]
  /\ \E e \in HumidifierEntities : <<e, "on">> \in cmds \ calls

\* ---------------------------------------------------------------------------
\* a cycle of the periodic check or of a change, with control not locked
UnlockedCycle == last.cycle /\ last.timer = "" /\ ~ControlLocked

\* the cycle published global_gate and evaluated no lane
GateBlockedCycle ==
  /\ runtimeMode = "global_gate"
  /\ lane \in {"gate_hold", "gate_safe"}
  /\ ran = {}

\* C38: when the presence gate is enabled and no entity is in a present
\* state, a cycle (control not locked) publishes global_gate and skips the
\* lanes, whatever the time gate's configuration and the time are, also when
\* the time gate is enabled, outside its window and set to no_action.
C38_PresenceGateBlocks ==
  (UnlockedCycle /\ PresenceBlocked) => GateBlockedCycle

\* the same, for every cycle but the one where the time gate is outside its
\* window with no_action (or no action configured): _gate_status returns
\* there before it looks at the presence gate
C38_BlocksUnlessTimeGateReturnsFirst ==
  (UnlockedCycle /\ PresenceBlocked
     /\ ~(TimeBlocked /\ cfg.time_gate.outside_action \in {"no_action", "unset"}))
    => GateBlockedCycle

\* nobody is present, the time gate is outside its window with no_action: the
\* cycle went through the lanes and started an AQ run
C38_PresenceGateBypassed ==
  /\ UnlockedCycle /\ PresenceBlocked /\ TimeBlocked
  /\ cfg.time_gate.outside_action = "no_action"
  /\ lane = "lanes" /\ runtimeMode # "global_gate"
  /\ "aq" \in ran

\* nobody is present inside the window: the cycle was blocked
C38_BlockedInsideWindow ==
  /\ UnlockedCycle /\ PresenceBlocked /\ ~TimeBlocked
  /\ cfg.time_gate.enabled
  /\ GateBlockedCycle

\* ---------------------------------------------------------------------------
\* the gate blocks and its action is neither safe_state nor no_action
GatePauses ==
  /\ ControlLockReason(Cur) = "" /\ ~GateStatus(Cur)
  /\ cfg.time_gate.outside_action \notin {"safe_state", "no_action", "unset"}

\* the sleeping run timers
Sleeping == { t \in aqTimers : t.st = "sleeping" }

\* C39: while the gate blocks with an action other than safe_state or
\* no_action, no step of the engine issues an output command, from a cycle or
\* from the callback of a run timer, and no run timer is started.
C39_GateHoldIsSilent ==
  [][ (GatePauses /\ GatePauses') =>
        /\ cmds' = {} /\ timerCmds' = {}
        /\ Sleeping' \subseteq Sleeping
    ]_vars

\* the evaluation cycles are silent while the gate blocks: what is not is the
\* callback of a run timer, which does not consult the gate
C39_GateHoldCyclesSilent ==
  [][ (GatePauses /\ GatePauses') =>
        /\ cmds' = {}
        /\ last'.timer = "" => (timerCmds' = {} /\ Sleeping' \subseteq Sleeping)
    ]_vars

\* the gate was blocking when the run timer of level1 expired: the callback
\* released the outputs of the run to auto
C39_TimerReleasedUnderGate ==
  /\ GatePauses /\ runtimeMode = "global_gate"
  /\ last.timer = "level1"
  /\ <<"fan.aq1", "auto">> \in timerCmds

\* the gate was blocking when the run timer expired with the trigger still
\* met: the callback started a new run at the run level
C39_TimerRestartedUnderGate ==
  /\ GatePauses /\ runtimeMode = "global_gate"
  /\ last.timer = "level1"
  /\ \E c \in timerCmds : c[1] = "fan.aq1" /\ c[2] # "auto"
  /\ LiveTimers("level1") # {}

\* ---------------------------------------------------------------------------
\* no trigger of the level is satisfied
AqUntriggered(l) == ~AqTriggered(Cur, l)

\* the mode air_quality is published and no other level accounts for it
AirQualityOnAccountOf(l) ==
  /\ runtimeMode = "air_quality"
  /\ \A m \in Levels \ {l} : LiveTimers(m) = {} /\ ~AqTriggered(Cur, m)

\* the level is at rest: no live timer, flag off, mode not owed to it
AqAtRest(l) ==
  /\ LiveTimers(l) = {}
  /\ ~bools[AqActiveKey(l)]
  /\ ~AirQualityOnAccountOf(l)

HeldStale(l) ==
  /\ AqActiveKey(l) \in scn.restored
  /\ bools[AqActiveKey(l)]
  /\ LiveTimers(l) = {}
  /\ last.cycle => lane = "gate_hold"

C40_RestWitness ==
  /\ CycleRan /\ lane = "lanes"
  /\ cfg = CfgGate("pause")
  /\ AqUntriggered("level1") /\ AqAtRest("level1")
  /\ runtimeMode = "normal"

\* the flag of level2 was restored as on, the engine started outside the
\* window and every cycle was held: the flag is on with no run behind it
C40_StaleFlagHeld ==
  /\ now = MaxTime /\ last.cycle
  /\ HeldStale("level2") /\ AqUntriggered("level2")
  /\ runtimeMode = "global_gate"

====
